---- MODULE Spec2Model ----
(***************************************************************************)
(* A model of the BlueBubbles-compatible bridge: the send cache            *)
(* (services/send-cache.js), the send handlers of the REST routes and of   *)
(* the socket events, the socket room tracking (SocketManager) and the     *)
(* two delivery paths of daemon messages (SSE push and periodic poll).     *)
(*                                                                         *)
(* JavaScript values are modelled as strings: Undefined is an absent       *)
(* field, "" the empty string, NumTok a JSON number (typeof 'number').     *)
(***************************************************************************)
EXTENDS Integers, Sequences, FiniteSets, TLC

\* ------------------------------------------------------------------ bounds
MaxReq == 2        \* send requests handled in one behaviour
MaxSid == 3        \* socket connections opened in one behaviour
MaxPolls == 2      \* concurrent pollSwiftDaemon invocations the model follows
MaxNow == 7        \* Date.now() runs from SSE_IDLE_TIMEOUT_MS + 1 up to MaxNow
MaxVersion == 3    \* address book versions the daemon goes through
MaxFetches == 3    \* concurrent swiftDaemon.getContacts calls the model follows
MaxOff == 3        \* the codec is applied to each base value plus 0 .. MaxOff

\* ------------------------------------------------------------------ values
Undefined == "undefined"
Null == "null"
EmptyStr == ""
StrTok == "abc123"
NumTok == "number:123"

\* the fallback token of a REST request that carries none:
\* `temp-${Date.now()}-${Math.random()...}`, distinct per request
fallbackGuid(r) == <<"temp-1", "temp-2", "temp-3", "temp-4">>[r]

\* what a client can put in the tempGuid field
TokenInputs == {StrTok, NumTok, EmptyStr, Undefined}
\* what the cache API is called with
CacheArgs == {StrTok, "xyz789", "temp-guid-3", NumTok, EmptyStr, Undefined}

\* JavaScript truthiness of the modelled values (!x is false)
Truthy(x) == x \notin {Undefined, Null, EmptyStr}
\* typeof x === 'string'
IsString(x) == x \notin {Undefined, Null, NumTok}

\* ------------------------------------------------------------------ send cache
\* items.find(i => i.item === tempGuid) / items.findIndex(...)
findIndex(its, t) ==
    IF \E i \in 1..Len(its) : its[i] = t
    THEN CHOOSE i \in 1..Len(its) : its[i] = t /\ \A j \in 1..(i-1) : its[j] # t
    ELSE 0

\* items.splice(idx, 1)
splice(its, idx) == [i \in 1..(Len(its) - 1) |-> IF i < idx THEN its[i] ELSE its[i + 1]]

add_noDupCheck(its, t) ==
    IF ~Truthy(t) \/ ~IsString(t) THEN [ret |-> FALSE, items |-> its]
    ELSE [ret |-> TRUE, items |-> Append(its, t)]

\* add(tempGuid): the value returned and the items array afterwards
add(its, t) ==
    IF ~Truthy(t) \/ ~IsString(t) THEN [ret |-> FALSE, items |-> its]
    ELSE IF findIndex(its, t) > 0 THEN [ret |-> FALSE, items |-> its]
    ELSE [ret |-> TRUE, items |-> Append(its, t)]

\* remove(tempGuid): the items array afterwards
remove(its, t) ==
    IF ~Truthy(t) THEN its
    ELSE IF findIndex(its, t) > 0 THEN splice(its, findIndex(its, t))
    ELSE its

\* find(tempGuid): the item found, or null
find(its, t) ==
    IF ~Truthy(t) THEN Null
    ELSE IF findIndex(its, t) > 0 THEN its[findIndex(its, t)]
    ELSE Null

\* purge()
purge(its) == <<>>

\* ------------------------------------------------------------------ state
VARIABLES
    items,        \* send-cache.js: the items array (item of each entry, in order)
    cacheLive,    \* history: tokens whose last state-changing cache call was a successful add
    cacheLast,    \* history: the last cache API call, its argument, its result, the items before
    reqs,         \* the send requests: where each handler stands and what it has done
    sockState,    \* each socket id: "fresh", "connected" or "disconnected"
    ioSockets,    \* io.sockets.sockets: the ids of the sockets the namespace holds
    ioRooms,      \* Socket.IO's own room membership of each socket
    connectedDevices,  \* SocketManager.connectedDevices: sid -> rooms of the device info
    chatRooms,    \* SocketManager.chatRooms: chatGuid -> set of sids
    roomsJoined,  \* history: the chatGuids each socket joined by join_chat and has not left since
    pollTimer,    \* server.js pollTimer: whether it holds a handle, and the intervals that are live
    sseTimes,     \* Date.now(), server.js lastSseEventAt and lastSseConnectAt, and (history)
                  \* the callback that last changed sseHealthy
    contacts,     \* contactsCache (the version of the data it holds, 0 when empty), the
                  \* daemon's address book version, the getContacts calls in flight, and
                  \* (history) the last answered request: the version when it started and
                  \* the version of the data it was answered with
    sseHealthy,   \* server.js sseHealthy
    pollCalls,    \* the `since` of each pollSwiftDaemon invocation awaiting getUpdates
    supportsUpdates,   \* SwiftDaemonClient.supportsUpdates
    lastCheckTime,     \* server.js lastCheckTime
    recentlyEmittedGuids,  \* server.js recentlyEmittedGuids
    emitted,      \* history: 'message.created' broadcasts made for each followed guid
    sseDelivered, \* history: the guids the SSE path has delivered
    pollDelivered, \* history: the guids the poll path has delivered
    call,         \* the read request (REST route or socket event) being handled, or the last one
    conv,         \* the last timestamp conversion: its operation, argument and result
    shaped,       \* the last response shaping: the upstream record and the shaped result
    webhooks      \* the outbound webhook call of each send request: none, pending, delivered, failed

sendVars == <<items, cacheLive, cacheLast, reqs>>
roomVars == <<sockState, ioSockets, ioRooms, connectedDevices, chatRooms, roomsJoined>>
deliveryVars == <<pollTimer, sseHealthy, pollCalls, supportsUpdates, lastCheckTime,
                  recentlyEmittedGuids, emitted, sseDelivered, pollDelivered, sseTimes, contacts>>
idleVars == <<call, conv, shaped, webhooks>>
vars == <<sendVars, roomVars, deliveryVars, call, conv, shaped, webhooks>>


Req == 1..MaxReq
Sid == 1..MaxSid
\* the daemon message the model follows by guid; any other message is "other"
FollowedGuids == {"g1"}
Chat1 == "SMS;-;+15551234567"

\* a message record of a reply (toMessagePayload / toMessageResponse), or none
NoData == [present |-> FALSE, chatGuid |-> Undefined, tempGuid |-> Undefined, error |-> 0]
NoReply == [sent |-> FALSE, status |-> 0, message |-> "", errType |-> "", error |-> "", data |-> NoData]
IdleReq == [pc |-> "idle", kind |-> "none", clientTok |-> Undefined, tok |-> Undefined,
            chat |-> Undefined, att |-> "none", added |-> FALSE, released |-> FALSE,
            upstream |-> 0, outcome |-> "none", bcast |-> 0, bcastRoom |-> Undefined,
            reply |-> NoReply]

\* the credentials of a REST request and the configured server password
NoCred == [password |-> Undefined, guid |-> Undefined, bearer |-> Undefined, configured |-> ""]
IdleCall == [pc |-> "idle", op |-> "none", cred |-> NoCred, ran |-> FALSE, upstream |-> 0,
             timedOut |-> FALSE, failed |-> FALSE, id |-> Undefined, store |-> {}, before |-> <<-1, 0, 0>>,
             sentCursor |-> FALSE, cursor |-> <<-1, 0, 0>>, dates |-> <<>>, reply |-> NoReply]

\* SSE_IDLE_TIMEOUT_MS, in the unit of the model's clock
SSE_IDLE_TIMEOUT_MS == 2

\* startPolling(): `if (pollTimer) return`, else setInterval
startPolling(timer) ==
    IF timer.handle THEN timer ELSE [handle |-> TRUE, live |-> timer.live + 1]

\* the contacts cache before the first fetch
NoContacts == [cache |-> 0, version |-> 1, fetches |-> <<>>, last |-> [start |-> 0, served |-> 0]]

Init ==
    /\ call = IdleCall
    /\ webhooks = [r \in Req |-> "none"]
    /\ conv = [op |-> "none", arg |-> <<>>, ret |-> <<>>]
    /\ shaped = [op |-> "none", present |-> {}, threw |-> FALSE, out |-> <<>>]
    /\ items = <<>>
    /\ cacheLive = {}
    /\ cacheLast = [op |-> "none", arg |-> Undefined, ret |-> Undefined, before |-> <<>>]
    /\ reqs = [r \in Req |-> IdleReq]
    /\ sockState = [sid \in Sid |-> "fresh"]
    /\ ioSockets = {}
    /\ ioRooms = [sid \in Sid |-> {}]
    /\ connectedDevices = <<>>
    /\ chatRooms = <<>>
    /\ roomsJoined = [sid \in Sid |-> {}]
    /\ pollTimer = startPolling([handle |-> FALSE, live |-> 0])
    /\ sseTimes = [now |-> SSE_IDLE_TIMEOUT_MS + 1, lastSseEventAt |-> 0, lastSseConnectAt |-> 0,
                   cause |-> "startup"]
    /\ contacts = NoContacts
    /\ sseHealthy = FALSE
    /\ pollCalls = <<>>
    /\ supportsUpdates = TRUE
    /\ lastCheckTime = 0
    /\ recentlyEmittedGuids = [followed |-> {}, others |-> 0]
    /\ emitted = [g \in FollowedGuids |-> 0]
    /\ sseDelivered = {}
    /\ pollDelivered = {}

\* ------------------------------------------------------------------ cache API calls
CacheAdd(t) ==
    /\ items' = add(items, t).items
    /\ cacheLive' = IF add(items, t).ret THEN cacheLive \cup {t} ELSE cacheLive
    /\ cacheLast' = [op |-> "add", arg |-> t,
                     ret |-> IF add(items, t).ret THEN "true" ELSE "false", before |-> items]
    /\ UNCHANGED <<idleVars, reqs, roomVars, deliveryVars>>

CacheRemove(t) ==
    /\ items' = remove(items, t)
    /\ cacheLive' = cacheLive \ {t}
    /\ cacheLast' = [op |-> "remove", arg |-> t, ret |-> Undefined, before |-> items]
    /\ UNCHANGED <<idleVars, reqs, roomVars, deliveryVars>>

CacheFind(t) ==
    /\ items' = items
    /\ cacheLive' = cacheLive
    /\ cacheLast' = [op |-> "find", arg |-> t, ret |-> find(items, t), before |-> items]
    /\ UNCHANGED <<idleVars, reqs, roomVars, deliveryVars>>

CachePurge ==
    /\ items' = purge(items)
    /\ cacheLive' = {}
    /\ cacheLast' = [op |-> "purge", arg |-> Undefined, ret |-> Undefined, before |-> items]
    /\ UNCHANGED <<idleVars, reqs, roomVars, deliveryVars>>

NextCache ==
    \/ \E t \in CacheArgs : CacheAdd(t)
    \/ \E t \in CacheArgs : CacheRemove(t)
    \/ \E t \in CacheArgs : CacheFind(t)
    \/ CachePurge

SpecCache == Init /\ [][NextCache]_vars

\* ------------------------------------------------------------------ reply envelopes
\* utils/envelope.js defaultMessageForStatus
defaultMessageForStatus(status) ==
    CASE status = 400 -> "You've made a bad request! Please check your request params & body"
      [] status = 401 -> "You are not authorized to access this resource"
      [] status = 404 -> "The requested resource was not found"
      [] status = 500 -> "The server has encountered an error"
      [] status = 504 -> "The server took too long to response!"
      [] OTHER -> "Error"

\* sendError(res, status, error, message = 'Error')
sendError(status, error, message) ==
    [sent |-> TRUE, status |-> status,
     message |-> IF message = "Error" THEN defaultMessageForStatus(status) ELSE message,
     errType |-> "", error |-> error, data |-> NoData]

\* sendBlueBubblesError(res, status, errorMessage, { type })
sendBlueBubblesError(status, errorMessage, type) ==
    [sent |-> TRUE, status |-> status, message |-> defaultMessageForStatus(status),
     errType |-> type, error |-> errorMessage, data |-> NoData]

\* sendSuccess(res, data, message, 200)
sendSuccess(data, message) ==
    [sent |-> TRUE, status |-> 200, message |-> message, errType |-> "", error |-> "", data |-> data]

\* the send routes' res.status(500).json({ status, message, error, data: errorData })
sendErrorWithData(message, error, data) ==
    [sent |-> TRUE, status |-> 500, message |-> message, errType |-> "", error |-> error, data |-> data]

\* createSuccessResponse(data)
createSuccessResponse(data) ==
    [sent |-> TRUE, status |-> 200, message |-> "Success", errType |-> "", error |-> "", data |-> data]

\* createServerErrorResponse(error, errorType, message, data = null)
createServerErrorResponse(error, errorType, message, data) ==
    [sent |-> TRUE, status |-> 500, message |-> message, errType |-> errorType,
     error |-> error, data |-> data]

createBadRequestResponse_conflict(message) ==
    [sent |-> TRUE, status |-> 409, message |-> "Conflict", errType |-> "Validation Error",
     error |-> message, data |-> NoData]

\* createBadRequestResponse(message)
createBadRequestResponse(message) ==
    [sent |-> TRUE, status |-> 400, message |-> "Bad Request", errType |-> "Validation Error",
     error |-> message, data |-> NoData]

\* toMessagePayload(msg, chatGuid, { tempGuid, errorCode }) and
\* toMessageResponse(...) with tempGuid and error set by the caller: the
\* fields of the record the claims are about
toMessagePayload(chatGuid, tempGuid, errorCode) ==
    [present |-> TRUE, chatGuid |-> chatGuid,
     tempGuid |-> IF Truthy(tempGuid) THEN tempGuid ELSE Undefined, error |-> errorCode]

AlreadyQueued == "Message is already queued to be sent"
FieldRequired == "required field missing"

\* ------------------------------------------------------------------ authentication middleware
\* the configured server password (SERVER_PASSWORD) and what clients send
ServerPassword == "secret"

\* String(x).trim() over the modelled values
Trim(x) == IF x = " secret " THEN ServerPassword ELSE x

\* what a request carries and what the server is configured with
CredInputs ==
    [password : {Undefined, EmptyStr, ServerPassword, " secret ", "wrong"},
     guid : {Undefined, ServerPassword, "wrong"},
     \* a token POST /api/v1/auth issued (generateToken), sent as `Authorization: Bearer`
     bearer : {Undefined, "Bearer jwt"},
     \* getServerPassword(): String(process.env.SERVER_PASSWORD || ... || '')
     configured : {ServerPassword, EmptyStr}]

\* readQueryToken(req): req.query?.password ?? req.query?.guid, then ?? null
readQueryToken(cred) ==
    LET token == IF cred.password # Undefined THEN cred.password ELSE cred.guid
    IN  IF token = Undefined THEN Null ELSE token

\* res.status(status).json({ success: false, error })
jsonError(status, error) ==
    [sent |-> TRUE, status |-> status, message |-> "", errType |-> "", error |-> error,
     data |-> NoData]

\* optionalAuthenticateToken(req, res, next): the reply it sends, or NoReply
\* when it calls next()
optionalAuthenticateToken(cred) ==
    LET password == cred.configured
        token == readQueryToken(cred)
    IN  IF ~Truthy(password)
        THEN jsonError(500, "Failed to retrieve password from the server configuration")
        ELSE IF ~Truthy(token) THEN jsonError(401, "Missing server password!")
        ELSE IF Trim(token) # Trim(password) THEN jsonError(401, "Unauthorized")
        ELSE NoReply

\* ------------------------------------------------------------------ send handlers
\* requests are taken in order of their index
Startable(r) == reqs[r].pc = "idle" /\ \A q \in 1..(r - 1) : reqs[q].pc # "idle"


\* the query string of a REST send request that passes optionalAuthenticateToken:
\* the password in ?password= (with or without a chat id in ?guid=) or in ?guid=
QueryInputs ==
    {q \in [password : {Undefined, ServerPassword}, guid : {Undefined, ServerPassword, Chat1},
            bearer : {Undefined}, configured : {ServerPassword}] :
        ~optionalAuthenticateToken(q).sent}

Started(kind, bodyTok, T, chatGuid, att) ==
    [IdleReq EXCEPT !.kind = kind, !.clientTok = bodyTok, !.tok = T, !.chat = chatGuid, !.att = att]

Answer(q, reply) == [q EXCEPT !.pc = "done", !.att = "none", !.reply = reply]

\* the handler inserts its token and calls swiftDaemon.sendMessage, which posts
\* /send in the same synchronous step and suspends
CallSend(q) ==
    [q EXCEPT !.pc = "sending", !.att = "none", !.added = add(items, q.tok).ret,
              !.upstream = q.upstream + 1]

\* POST /api/v1/message/text up to its await
RestTextStart(r, bodyTok, bodyChatGuid, query, textEmpty, paths) ==
    /\ Startable(r)
    /\ LET T == IF Truthy(bodyTok) THEN bodyTok ELSE fallbackGuid(r)
           \* bodyChatGuid ?? req.query?.guid ?? null
           chatGuid == IF bodyChatGuid # Undefined THEN bodyChatGuid ELSE query.guid
           q == Started("rest-text", bodyTok, T, chatGuid, paths)
       IN  IF paths = "bad"
           THEN \* resolveAttachmentPaths throws: the outer catch
                /\ items' = remove(items, T)
                /\ reqs' = [reqs EXCEPT ![r] = Answer(q, sendError(500, "TypeError", "Error"))]
           ELSE IF ~Truthy(chatGuid) \/ (textEmpty /\ paths = "none")
           THEN /\ items' = items
                /\ reqs' = [reqs EXCEPT ![r] = Answer(q, sendError(400, FieldRequired, "Bad Request"))]
           ELSE IF find(items, T) # Null
           THEN /\ items' = items
                /\ reqs' = [reqs EXCEPT ![r] = Answer(q, sendError(400, AlreadyQueued, "Bad Request"))]
           ELSE /\ items' = add(items, T).items
                /\ reqs' = [reqs EXCEPT ![r] = CallSend(q)]
    /\ UNCHANGED <<idleVars, cacheLive, cacheLast, roomVars, deliveryVars>>

\* fireMessageSentWebhook(data): returns at once when no WEBHOOK_URL is set,
\* else starts axios.post(...) and returns without awaiting it
fireMessageSentWebhook(configured) == IF configured THEN "pending" ELSE "none"

RestTextSendOk_awaitsWebhook(r, configured) ==
    /\ reqs[r].pc = "sending" /\ reqs[r].kind = "rest-text"
    /\ items' = remove(items, reqs[r].tok)
    /\ webhooks' = [webhooks EXCEPT ![r] = fireMessageSentWebhook(configured)]
    /\ reqs' = [reqs EXCEPT ![r] =
          IF configured
          THEN [@ EXCEPT !.pc = "webhook", !.outcome = "ok", !.released = TRUE,
                         !.bcast = @ + 1, !.bcastRoom = reqs[r].chat]
          ELSE Answer([@ EXCEPT !.outcome = "ok", !.released = TRUE,
                                !.bcast = @ + 1, !.bcastRoom = reqs[r].chat],
                      sendSuccess(toMessagePayload(reqs[r].chat, reqs[r].tok, 0), "Message sent!"))]
    /\ UNCHANGED <<call, conv, shaped, cacheLive, cacheLast, roomVars, deliveryVars>>

\* POST /api/v1/message/text: swiftDaemon.sendMessage resolved
RestTextSendOk(r, configured) ==
    /\ reqs[r].pc = "sending" /\ reqs[r].kind = "rest-text"
    /\ items' = remove(items, reqs[r].tok)
    /\ webhooks' = [webhooks EXCEPT ![r] = fireMessageSentWebhook(configured)]
    /\ reqs' = [reqs EXCEPT ![r] =
          Answer([@ EXCEPT !.outcome = "ok", !.released = TRUE,
                           !.bcast = @ + 1, !.bcastRoom = reqs[r].chat],
                 sendSuccess(toMessagePayload(reqs[r].chat, reqs[r].tok, 0), "Message sent!"))]
    /\ UNCHANGED <<call, conv, shaped, cacheLive, cacheLast, roomVars, deliveryVars>>

RestTextSendFail_keepsEntry(r) ==
    /\ reqs[r].pc = "sending" /\ reqs[r].kind = "rest-text"
    /\ items' = items
    /\ reqs' = [reqs EXCEPT ![r] =
          Answer([@ EXCEPT !.outcome = "fail"],
                 sendErrorWithData("Message Send Error", "Failed to send message!",
                                   toMessagePayload(reqs[r].chat, reqs[r].tok, 4)))]
    /\ UNCHANGED <<idleVars, cacheLive, cacheLast, roomVars, deliveryVars>>

\* POST /api/v1/message/text: swiftDaemon.sendMessage rejected
RestTextSendFail(r) ==
    /\ reqs[r].pc = "sending" /\ reqs[r].kind = "rest-text"
    /\ items' = remove(items, reqs[r].tok)
    /\ reqs' = [reqs EXCEPT ![r] =
          Answer([@ EXCEPT !.outcome = "fail", !.released = TRUE],
                 sendErrorWithData("Message Send Error", "Failed to send message!",
                                   toMessagePayload(reqs[r].chat, reqs[r].tok, 4)))]
    /\ UNCHANGED <<idleVars, cacheLive, cacheLast, roomVars, deliveryVars>>


\* POST /api/v1/message/attachment: the upload middleware and the handler up to its await
RestAttachmentStart(r, bodyTok, bodyChatGuid, query, file) ==
    /\ Startable(r)
    /\ LET T == IF bodyTok # Undefined THEN bodyTok ELSE fallbackGuid(r)
           \* req.body?.chatGuid ?? req.query?.guid ?? null
           chatGuid == IF bodyChatGuid # Undefined THEN bodyChatGuid ELSE query.guid
           q == Started("rest-attachment", bodyTok, T, chatGuid, file)
       IN  IF file = "uploadErr"
           THEN /\ items' = items
                /\ reqs' = [reqs EXCEPT ![r] =
                      Answer(q, sendBlueBubblesError(400, "Attachment upload failed", "Validation Error"))]
           ELSE IF ~Truthy(chatGuid)
           THEN /\ items' = items
                /\ reqs' = [reqs EXCEPT ![r] =
                      Answer(q, sendBlueBubblesError(400, FieldRequired, "Validation Error"))]
           ELSE IF file = "missing"
           THEN /\ items' = items
                /\ reqs' = [reqs EXCEPT ![r] =
                      Answer(q, sendBlueBubblesError(400, "Attachment not provided or was empty!", "Validation Error"))]
           ELSE IF find(items, T) # Null
           THEN /\ items' = items
                /\ reqs' = [reqs EXCEPT ![r] =
                      Answer(q, sendBlueBubblesError(400, AlreadyQueued, "Validation Error"))]
           ELSE /\ items' = add(items, T).items
                /\ reqs' = [reqs EXCEPT ![r] = CallSend(q)]
    /\ UNCHANGED <<idleVars, cacheLive, cacheLast, roomVars, deliveryVars>>

\* POST /api/v1/message/attachment: swiftDaemon.sendMessage resolved
RestAttachmentSendOk(r, configured) ==
    /\ reqs[r].pc = "sending" /\ reqs[r].kind = "rest-attachment"
    /\ items' = remove(items, reqs[r].tok)
    /\ webhooks' = [webhooks EXCEPT ![r] = fireMessageSentWebhook(configured)]
    /\ reqs' = [reqs EXCEPT ![r] =
          Answer([@ EXCEPT !.outcome = "ok", !.released = TRUE,
                           !.bcast = @ + 1, !.bcastRoom = reqs[r].chat],
                 sendSuccess(toMessagePayload(reqs[r].chat, reqs[r].tok, 0), "Attachment sent!"))]
    /\ UNCHANGED <<call, conv, shaped, cacheLive, cacheLast, roomVars, deliveryVars>>

\* POST /api/v1/message/attachment: swiftDaemon.sendMessage rejected
RestAttachmentSendFail(r) ==
    /\ reqs[r].pc = "sending" /\ reqs[r].kind = "rest-attachment"
    /\ items' = remove(items, reqs[r].tok)
    /\ reqs' = [reqs EXCEPT ![r] =
          Answer([@ EXCEPT !.outcome = "fail", !.released = TRUE],
                 sendErrorWithData("Attachment Send Error", "Failed to send attachment!",
                                   toMessagePayload(reqs[r].chat, reqs[r].tok, 4)))]
    /\ UNCHANGED <<idleVars, cacheLive, cacheLast, roomVars, deliveryVars>>


\* socket.on('send-message') up to its await
SendMessageStart(r, tempGuid, chatGuid, textEmpty, att) ==
    /\ Startable(r)
    /\ LET q == Started("send-message", tempGuid, tempGuid, chatGuid, att)
           hasInlineAttachment == att \in {"inline", "inlineSaveFail"}
       IN  IF ~Truthy(chatGuid)
           THEN /\ items' = items
                /\ reqs' = [reqs EXCEPT ![r] = Answer(q, createBadRequestResponse(FieldRequired))]
           ELSE IF ~Truthy(tempGuid)
           THEN /\ items' = items
                /\ reqs' = [reqs EXCEPT ![r] = Answer(q, createBadRequestResponse(FieldRequired))]
           ELSE IF att = "inlinePartial"
           THEN /\ items' = items
                /\ reqs' = [reqs EXCEPT ![r] =
                      Answer(q, createServerErrorResponse("No attachment name or GUID provided",
                                                          "Server Error", "Server Error", NoData))]
           ELSE IF textEmpty /\ att = "none"
           THEN /\ items' = items
                /\ reqs' = [reqs EXCEPT ![r] = Answer(q, createBadRequestResponse(FieldRequired))]
           ELSE IF find(items, tempGuid) # Null
           THEN /\ items' = items
                /\ reqs' = [reqs EXCEPT ![r] = Answer(q, createBadRequestResponse(AlreadyQueued))]
           ELSE IF att = "inlineSaveFail"
           THEN /\ items' = items
                /\ reqs' = [reqs EXCEPT ![r] =
                      Answer(q, createServerErrorResponse("Failed to save attachment",
                                                          "Server Error", "Server Error", NoData))]
           ELSE IF att = "badPaths"
           THEN \* resolveAttachmentPaths throws: the handler's promise rejects, nothing is answered
                /\ items' = items
                /\ reqs' = [reqs EXCEPT ![r] = [q EXCEPT !.pc = "done", !.att = "none"]]
           ELSE /\ items' = add(items, tempGuid).items
                /\ reqs' = [reqs EXCEPT ![r] = CallSend(q)]
    /\ UNCHANGED <<idleVars, cacheLive, cacheLast, roomVars, deliveryVars>>

\* socket.on('send-message'): swiftDaemon.sendMessage resolved
SendMessageOk(r) ==
    /\ reqs[r].pc = "sending" /\ reqs[r].kind = "send-message"
    /\ items' = remove(items, reqs[r].tok)
    /\ reqs' = [reqs EXCEPT ![r] =
          Answer([@ EXCEPT !.outcome = "ok", !.released = TRUE,
                           !.bcast = @ + 1, !.bcastRoom = reqs[r].chat],
                 createSuccessResponse(toMessagePayload(reqs[r].chat, reqs[r].tok, 0)))]
    /\ UNCHANGED <<idleVars, cacheLive, cacheLast, roomVars, deliveryVars>>

\* socket.on('send-message'): swiftDaemon.sendMessage rejected
SendMessageFail(r) ==
    /\ reqs[r].pc = "sending" /\ reqs[r].kind = "send-message"
    /\ items' = remove(items, reqs[r].tok)
    /\ reqs' = [reqs EXCEPT ![r] =
          Answer([@ EXCEPT !.outcome = "fail", !.released = TRUE],
                 createServerErrorResponse("Failed to send message via Swift daemon", "iMessage Error",
                                           "Failed to send message! See attached message error code.",
                                           toMessagePayload(reqs[r].chat, reqs[r].tok, 4)))]
    /\ UNCHANGED <<idleVars, cacheLive, cacheLast, roomVars, deliveryVars>>


\* socket.on('send-message-chunk') up to its await, or to its end for a chunk that is not the last
SendMessageChunkStart(r, tempGuid, chatGuid, hasMore, att) ==
    /\ Startable(r)
    /\ LET q == Started("send-message-chunk", tempGuid, tempGuid, chatGuid, att)
       IN  IF ~Truthy(chatGuid)
           THEN /\ items' = items
                /\ reqs' = [reqs EXCEPT ![r] = Answer(q, createBadRequestResponse(FieldRequired))]
           ELSE IF ~Truthy(tempGuid)
           THEN /\ items' = items
                /\ reqs' = [reqs EXCEPT ![r] = Answer(q, createBadRequestResponse(FieldRequired))]
           ELSE IF find(items, tempGuid) # Null
           THEN /\ items' = items
                /\ reqs' = [reqs EXCEPT ![r] = Answer(q, createBadRequestResponse(AlreadyQueued))]
           ELSE IF att = "saveFail"
           THEN /\ items' = items
                /\ reqs' = [reqs EXCEPT ![r] =
                      Answer(q, createServerErrorResponse("Failed to save attachment chunk",
                                                          "Server Error", "Server Error", NoData))]
           ELSE IF hasMore
           THEN /\ items' = items
                /\ reqs' = [reqs EXCEPT ![r] = Answer(q, createSuccessResponse(NoData))]
           ELSE IF att = "dataNoName"
           THEN /\ items' = items
                /\ reqs' = [reqs EXCEPT ![r] = Answer(q, createBadRequestResponse(FieldRequired))]
           ELSE IF att = "buildFail"
           THEN \* sendCache.add, buildAttachmentChunks throws, sendCache.remove
                /\ items' = remove(add(items, tempGuid).items, tempGuid)
                /\ reqs' = [reqs EXCEPT ![r] =
                      Answer([q EXCEPT !.added = add(items, tempGuid).ret, !.released = TRUE],
                             createServerErrorResponse("Failed to build attachment from chunks",
                                                       "Server Error", "Server Error", NoData))]
           ELSE /\ items' = add(items, tempGuid).items
                /\ reqs' = [reqs EXCEPT ![r] = CallSend(q)]
    /\ UNCHANGED <<idleVars, cacheLive, cacheLast, roomVars, deliveryVars>>

\* socket.on('send-message-chunk'): swiftDaemon.sendMessage resolved
SendMessageChunkOk(r) ==
    /\ reqs[r].pc = "sending" /\ reqs[r].kind = "send-message-chunk"
    /\ items' = remove(items, reqs[r].tok)
    /\ reqs' = [reqs EXCEPT ![r] =
          Answer([@ EXCEPT !.outcome = "ok", !.released = TRUE,
                           !.bcast = @ + 1, !.bcastRoom = reqs[r].chat],
                 createSuccessResponse(NoData))]
    /\ UNCHANGED <<idleVars, cacheLive, cacheLast, roomVars, deliveryVars>>

\* socket.on('send-message-chunk'): swiftDaemon.sendMessage rejected
SendMessageChunkFail(r) ==
    /\ reqs[r].pc = "sending" /\ reqs[r].kind = "send-message-chunk"
    /\ items' = remove(items, reqs[r].tok)
    /\ reqs' = [reqs EXCEPT ![r] =
          Answer([@ EXCEPT !.outcome = "fail", !.released = TRUE],
                 createServerErrorResponse("Failed to send message via Swift daemon",
                                           "Server Error", "Server Error", NoData))]
    /\ UNCHANGED <<idleVars, cacheLive, cacheLast, roomVars, deliveryVars>>

\* POST /api/v1/chat/new up to its first await (swiftDaemon.getChats)
ChatNewStart(r, tempGuid, hasAddresses, messageEmpty) ==
    /\ Startable(r)
    /\ LET q == Started("chat-new", tempGuid, tempGuid, Undefined,
                        IF messageEmpty THEN "noMessage" ELSE "message")
       IN  IF ~hasAddresses
           THEN reqs' = [reqs EXCEPT ![r] = Answer(q, sendError(400, "No addresses provided!", "Bad Request"))]
           ELSE reqs' = [reqs EXCEPT ![r] = [q EXCEPT !.pc = "getChats"]]
    /\ UNCHANGED <<idleVars, items, cacheLive, cacheLast, roomVars, deliveryVars>>

\* POST /api/v1/chat/new: getChats resolved; the initial message, if any, is sent
ChatNewChatsOk(r) ==
    /\ reqs[r].pc = "getChats"
    /\ IF reqs[r].att = "message"
       THEN reqs' = [reqs EXCEPT ![r] = [@ EXCEPT !.pc = "sending", !.att = "none", !.chat = Chat1,
                                                     !.upstream = @ + 1]]
       ELSE reqs' = [reqs EXCEPT ![r] =
                Answer([@ EXCEPT !.chat = Chat1], sendSuccess(NoData, "Successfully created chat!"))]
    /\ UNCHANGED <<idleVars, items, cacheLive, cacheLast, roomVars, deliveryVars>>

\* POST /api/v1/chat/new: getChats rejected
ChatNewChatsFail(r) ==
    /\ reqs[r].pc = "getChats"
    /\ reqs' = [reqs EXCEPT ![r] =
          Answer(@, sendError(500, "Failed to fetch chats from Swift daemon", "Error"))]
    /\ UNCHANGED <<idleVars, items, cacheLive, cacheLast, roomVars, deliveryVars>>

\* POST /api/v1/chat/new: the initial message's sendMessage resolved
ChatNewSendOk(r) ==
    /\ reqs[r].pc = "sending" /\ reqs[r].kind = "chat-new"
    /\ reqs' = [reqs EXCEPT ![r] =
          Answer([@ EXCEPT !.outcome = "ok"],
                 sendSuccess(toMessagePayload(reqs[r].chat, reqs[r].tok, 0), "Successfully created chat!"))]
    /\ UNCHANGED <<idleVars, items, cacheLive, cacheLast, roomVars, deliveryVars>>

\* POST /api/v1/chat/new: the initial message's sendMessage rejected
ChatNewSendFail(r) ==
    /\ reqs[r].pc = "sending" /\ reqs[r].kind = "chat-new"
    /\ reqs' = [reqs EXCEPT ![r] =
          Answer([@ EXCEPT !.outcome = "fail"], sendSuccess(NoData, "Successfully created chat!"))]
    /\ UNCHANGED <<idleVars, items, cacheLive, cacheLast, roomVars, deliveryVars>>


\* the webhook's axios.post settles: the rejection is logged by its .catch and
\* goes nowhere else (a call that never completes just stays pending)
WebhookSettled(r, outcome) ==
    /\ webhooks[r] = "pending"
    /\ webhooks' = [webhooks EXCEPT ![r] = outcome]
    /\ UNCHANGED <<call, conv, shaped, sendVars, roomVars, deliveryVars>>

NextSend ==
    \/ \E r \in Req, t \in TokenInputs, c \in {Chat1, Undefined}, q \in QueryInputs, e \in BOOLEAN,
          p \in {"none", "ok", "bad"} :
          RestTextStart(r, t, c, q, e, p)
    \/ \E r \in Req, w \in BOOLEAN : RestTextSendOk(r, w)
    \/ \E r \in Req : RestTextSendFail(r)
    \/ \E r \in Req, t \in {StrTok, EmptyStr, Undefined}, c \in {Chat1, Undefined}, q \in QueryInputs,
          f \in {"ok", "missing", "uploadErr"} :
          RestAttachmentStart(r, t, c, q, f)
    \/ \E r \in Req, w \in BOOLEAN : RestAttachmentSendOk(r, w)
    \/ \E r \in Req : RestAttachmentSendFail(r)
    \/ \E r \in Req, t \in TokenInputs, c \in {Chat1, Undefined}, e \in BOOLEAN,
          a \in {"none", "paths", "badPaths", "inline", "inlinePartial", "inlineSaveFail"} :
          SendMessageStart(r, t, c, e, a)
    \/ \E r \in Req : SendMessageOk(r)
    \/ \E r \in Req : SendMessageFail(r)
    \/ \E r \in Req, t \in TokenInputs, c \in {Chat1, Undefined}, m \in BOOLEAN,
          a \in {"none", "data", "dataNoName", "saveFail", "buildFail"} :
          SendMessageChunkStart(r, t, c, m, a)
    \/ \E r \in Req : SendMessageChunkOk(r)
    \/ \E r \in Req : SendMessageChunkFail(r)
    \/ \E r \in Req, t \in TokenInputs, h \in BOOLEAN, e \in BOOLEAN : ChatNewStart(r, t, h, e)
    \/ \E r \in Req : ChatNewChatsOk(r)
    \/ \E r \in Req : ChatNewChatsFail(r)
    \/ \E r \in Req : ChatNewSendOk(r)
    \/ \E r \in Req : ChatNewSendFail(r)
    \/ \E r \in Req, o \in {"delivered", "failed"} : WebhookSettled(r, o)

SpecSend == Init /\ [][NextSend]_vars

Range(s) == {s[i] : i \in 1..Len(s)}

\* ------------------------------------------------------------------ socket rooms
GlobalRoom == "global"
Chat2 == "iMessage;-;bob@example.com"
\* what a client can put in the chatGuid field of join_chat / leave_chat
RoomInputs == {Chat1, Chat2, GlobalRoom, EmptyStr, Undefined}

\* the part of the state joinChatRoom and leaveChatRoom work on
RoomState == [io |-> ioSockets, rooms |-> ioRooms, dev |-> connectedDevices, chat |-> chatRooms]

\* Map.delete(key)
MapDelete(m, k) == [x \in (DOMAIN m) \ {k} |-> m[x]]
\* Map.set(key, value)
MapSet(m, k, v) == [x \in (DOMAIN m) \cup {k} |-> IF x = k THEN v ELSE m[x]]

\* SocketManager.joinChatRoom(sid, chatGuid)
joinChatRoom(m, sid, chatGuid) ==
    IF sid \notin m.io THEN m
    ELSE [m EXCEPT
            !.rooms = [@ EXCEPT ![sid] = @ \cup {chatGuid}],
            !.dev = IF sid \in DOMAIN @ THEN MapSet(@, sid, @[sid] \cup {chatGuid}) ELSE @,
            !.chat = IF chatGuid \in DOMAIN @
                     THEN MapSet(@, chatGuid, @[chatGuid] \cup {sid})
                     ELSE MapSet(@, chatGuid, {sid})]

leaveChatRoom_keepsTracking(m, sid, chatGuid) ==
    IF sid \notin m.io THEN m
    ELSE [m EXCEPT
            !.rooms = [@ EXCEPT ![sid] = @ \ {chatGuid}],
            !.chat = IF chatGuid \in DOMAIN @
                     THEN IF @[chatGuid] \ {sid} = {}
                          THEN MapDelete(@, chatGuid)
                          ELSE MapSet(@, chatGuid, @[chatGuid] \ {sid})
                     ELSE @]

\* SocketManager.leaveChatRoom(sid, chatGuid)
leaveChatRoom(m, sid, chatGuid) ==
    IF sid \notin m.io THEN m
    ELSE [m EXCEPT
            !.rooms = [@ EXCEPT ![sid] = @ \ {chatGuid}],
            !.dev = IF sid \in DOMAIN @ THEN MapSet(@, sid, @[sid] \ {chatGuid}) ELSE @,
            !.chat = IF chatGuid \in DOMAIN @
                     THEN IF @[chatGuid] \ {sid} = {}
                          THEN MapDelete(@, chatGuid)
                          ELSE MapSet(@, chatGuid, @[chatGuid] \ {sid})
                     ELSE @]

\* deviceInfo.rooms.forEach(chatGuid => this.leaveChatRoom(socket.id, chatGuid))
RECURSIVE leaveEach(_, _, _)
leaveEach(m, sid, gs) ==
    IF gs = {} THEN m
    ELSE LET g == CHOOSE x \in gs : TRUE
         IN  leaveEach(leaveChatRoom(m, sid, g), sid, gs \ {g})

\* SocketManager.getRoomClientCount(chatGuid)
getRoomClientCount(chatGuid) ==
    IF chatGuid \in DOMAIN chatRooms THEN Cardinality(chatRooms[chatGuid]) ELSE 0

SetRoomState(m) ==
    /\ ioSockets' = m.io
    /\ ioRooms' = m.rooms
    /\ connectedDevices' = m.dev
    /\ chatRooms' = m.chat

\* io.on('connection') of server.js for a handshake with the right password,
\* then SocketManager.handleConnection(socket); socket ids are never reused
handleConnection(sid) ==
    /\ sockState[sid] = "fresh"
    /\ \A q \in 1..(sid - 1) : sockState[q] # "fresh"
    /\ sockState' = [sockState EXCEPT ![sid] = "connected"]
    /\ ioSockets' = ioSockets \cup {sid}
    /\ ioRooms' = [ioRooms EXCEPT ![sid] = {GlobalRoom}]
    /\ connectedDevices' = MapSet(connectedDevices, sid, {})
    /\ UNCHANGED <<idleVars, chatRooms, roomsJoined, sendVars, deliveryVars>>

\* io.on('connection') of server.js for a handshake that fails authentication:
\* socket.disconnect() before any handler is registered
RejectConnection(sid) ==
    /\ sockState[sid] = "fresh"
    /\ \A q \in 1..(sid - 1) : sockState[q] # "fresh"
    /\ sockState' = [sockState EXCEPT ![sid] = "disconnected"]
    /\ UNCHANGED <<idleVars, ioSockets, ioRooms, connectedDevices, chatRooms, roomsJoined,
                   sendVars, deliveryVars>>

\* SocketManager.handleJoinChat(socket, { chatGuid })
handleJoinChat(sid, chatGuid) ==
    /\ sockState[sid] = "connected"
    /\ IF ~Truthy(chatGuid)
       THEN UNCHANGED <<ioSockets, ioRooms, connectedDevices, chatRooms, roomsJoined>>
       ELSE /\ SetRoomState(joinChatRoom(RoomState, sid, chatGuid))
            /\ roomsJoined' = [roomsJoined EXCEPT ![sid] = @ \cup {chatGuid}]
    /\ UNCHANGED <<idleVars, sockState, sendVars, deliveryVars>>

\* SocketManager.handleLeaveChat(socket, { chatGuid })
handleLeaveChat(sid, chatGuid) ==
    /\ sockState[sid] = "connected"
    /\ IF Truthy(chatGuid)
       THEN /\ SetRoomState(leaveChatRoom(RoomState, sid, chatGuid))
            /\ roomsJoined' = [roomsJoined EXCEPT ![sid] = @ \ {chatGuid}]
       ELSE UNCHANGED <<ioSockets, ioRooms, connectedDevices, chatRooms, roomsJoined>>
    /\ UNCHANGED <<idleVars, sockState, sendVars, deliveryVars>>

\* The socket closes. Socket.IO leaves all its rooms and removes it from
\* io.sockets.sockets before it emits 'disconnect' (Socket._onclose: _cleanup,
\* then emitReserved("disconnect")); the listener is SocketManager.handleDisconnect.
handleDisconnect(sid) ==
    /\ sockState[sid] = "connected"
    /\ sockState' = [sockState EXCEPT ![sid] = "disconnected"]
    /\ LET closed == [RoomState EXCEPT !.io = @ \ {sid}, !.rooms = [@ EXCEPT ![sid] = {}]]
       IN  IF sid \in DOMAIN closed.dev
           THEN SetRoomState([leaveEach(closed, sid, closed.dev[sid]) EXCEPT !.dev = MapDelete(@, sid)])
           ELSE SetRoomState(closed)
    /\ roomsJoined' = [roomsJoined EXCEPT ![sid] = {}]
    /\ UNCHANGED <<idleVars, sendVars, deliveryVars>>

NextRooms ==
    \/ \E sid \in Sid : handleConnection(sid)
    \/ \E sid \in Sid : RejectConnection(sid)
    \/ \E sid \in Sid, g \in RoomInputs : handleJoinChat(sid, g)
    \/ \E sid \in Sid, g \in RoomInputs : handleLeaveChat(sid, g)
    \/ \E sid \in Sid : handleDisconnect(sid)

SpecRooms == Init /\ [][NextRooms]_vars

\* ------------------------------------------------------------------ message delivery
MAX_EMITTED_CACHE == 1000

\* dateCreated of the followed messages, in the unit of lastCheckTime
dateCreated(g) == IF g = "g1" THEN 1 ELSE 0

\* recentlyEmittedGuids is kept as the followed guids it holds and the number
\* of other guids it holds (its size is their sum)
\* shouldEmitMessage(guid): the value returned and the set afterwards; an
\* "other" guid is one the set does not hold yet
shouldEmitMessage(set, guid) ==
    IF ~Truthy(guid) THEN [ret |-> TRUE, set |-> set]
    ELSE IF guid \in set.followed THEN [ret |-> FALSE, set |-> set]
    ELSE LET added == IF guid \in FollowedGuids
                      THEN [set EXCEPT !.followed = @ \cup {guid}]
                      ELSE [set EXCEPT !.others = @ + 1]
         IN  IF Cardinality(added.followed) + added.others > MAX_EMITTED_CACHE
             THEN [ret |-> TRUE, set |-> [followed |-> {}, others |-> 0]]
             ELSE [ret |-> TRUE, set |-> added]

\* one message through the common part of onNewMessage and of the poll loop:
\* the set and the broadcast counts afterwards
EmitOne(st, guid) ==
    LET d == shouldEmitMessage(st.set, guid)
    IN  [set |-> d.set,
         emitted |-> IF d.ret /\ guid \in FollowedGuids
                     THEN [st.emitted EXCEPT ![guid] = @ + 1]
                     ELSE st.emitted]

\* for (const msgData of messages) { ... }
RECURSIVE EmitAll(_, _)
EmitAll(st, msgs) ==
    IF msgs = <<>> THEN st ELSE EmitAll(EmitOne(st, Head(msgs)), Tail(msgs))

\* stopPolling(): `if (!pollTimer) return`, else clearInterval and pollTimer = null
stopPolling(timer) ==
    IF ~timer.handle THEN timer ELSE [handle |-> FALSE, live |-> timer.live - 1]

setSseHealthy_noStop(healthy) ==
    IF sseHealthy = healthy
    THEN /\ sseHealthy' = sseHealthy
         /\ pollTimer' = pollTimer
    ELSE /\ sseHealthy' = healthy
         /\ pollTimer' = IF healthy THEN pollTimer ELSE startPolling(pollTimer)

\* setSseHealthy(healthy): sseHealthy and pollTimer afterwards
setSseHealthy(healthy) ==
    IF sseHealthy = healthy
    THEN /\ sseHealthy' = sseHealthy
         /\ pollTimer' = pollTimer
    ELSE /\ sseHealthy' = healthy
         /\ pollTimer' = IF healthy THEN stopPolling(pollTimer) ELSE startPolling(pollTimer)

\* subscribeToDaemonEvents onSseConnected
onSseConnected ==
    /\ setSseHealthy(TRUE)
    /\ sseTimes' = [sseTimes EXCEPT !.lastSseConnectAt = sseTimes.now,
                                    !.cause = IF sseHealthy THEN @ ELSE "connected"]
    /\ UNCHANGED <<idleVars, contacts, pollCalls, supportsUpdates, lastCheckTime,
                   recentlyEmittedGuids, emitted,
                   sseDelivered, pollDelivered, sendVars, roomVars>>

\* subscribeToDaemonEvents onSseDisconnected
onSseDisconnected ==
    /\ setSseHealthy(FALSE)
    /\ sseTimes' = [sseTimes EXCEPT !.cause = IF sseHealthy THEN "disconnected" ELSE @]
    /\ UNCHANGED <<idleVars, contacts, pollCalls, supportsUpdates, lastCheckTime,
                   recentlyEmittedGuids, emitted,
                   sseDelivered, pollDelivered, sendVars, roomVars>>

\* subscribeToDaemonEvents onNewMessage(msgData)
onNewMessage(m) ==
    /\ m \in FollowedGuids => m \notin sseDelivered
    /\ IF m = "noChat"
       THEN UNCHANGED <<recentlyEmittedGuids, emitted, sseDelivered>>
       ELSE LET guid == IF m = "noGuid" THEN Null ELSE m
                st == EmitOne([set |-> recentlyEmittedGuids, emitted |-> emitted], guid)
            IN  /\ recentlyEmittedGuids' = st.set
                /\ emitted' = st.emitted
                /\ sseDelivered' = IF m \in FollowedGuids THEN sseDelivered \cup {m} ELSE sseDelivered
    /\ UNCHANGED <<idleVars, contacts, sseTimes, pollTimer, sseHealthy, pollCalls,
                   supportsUpdates, lastCheckTime,
                   pollDelivered, sendVars, roomVars>>

PollTick_ignoresFlag ==
    /\ pollTimer.live > 0
    /\ Len(pollCalls) < MaxPolls
    /\ pollCalls' = Append(pollCalls, lastCheckTime)
    /\ UNCHANGED <<idleVars, contacts, sseTimes, pollTimer, sseHealthy, supportsUpdates,
                   lastCheckTime, recentlyEmittedGuids,
                   emitted, sseDelivered, pollDelivered, sendVars, roomVars>>

\* a tick of setInterval(pollSwiftDaemon, POLL_INTERVAL_MS): pollSwiftDaemon
\* up to its await of swiftDaemon.getUpdates(lastCheckTime)
PollTick ==
    /\ pollTimer.live > 0
    /\ Len(pollCalls) < MaxPolls
    /\ IF supportsUpdates
       THEN pollCalls' = Append(pollCalls, lastCheckTime)
       ELSE pollCalls' = pollCalls
    /\ UNCHANGED <<idleVars, contacts, sseTimes, pollTimer, sseHealthy, supportsUpdates,
                   lastCheckTime, recentlyEmittedGuids,
                   emitted, sseDelivered, pollDelivered, sendVars, roomVars>>

RECURSIVE MaxDate(_, _)
MaxDate(msgs, floor) ==
    LET Max(a, b) == IF a >= b THEN a ELSE b
    IN  IF msgs = <<>> THEN floor
        ELSE MaxDate(Tail(msgs), Max(floor, dateCreated(Head(msgs))))

\* the answers the daemon can give to getUpdates(since): the followed
\* message if it was created after `since`, or nothing
UpdatesFor(since) ==
    {msgs \in {<<>>, <<"g1">>} :
        \A i \in 1..Len(msgs) : dateCreated(msgs[i]) > since}

RemoveAt(q, i) == [j \in 1..(Len(q) - 1) |-> IF j < i THEN q[j] ELSE q[j + 1]]

\* pollSwiftDaemon after getUpdates resolved with `messages`
PollResolve(i, msgs) ==
    /\ i \in 1..Len(pollCalls)
    /\ msgs \in UpdatesFor(pollCalls[i])
    /\ LET st == EmitAll([set |-> recentlyEmittedGuids, emitted |-> emitted], msgs)
       IN  /\ recentlyEmittedGuids' = st.set
           /\ emitted' = st.emitted
    /\ pollDelivered' = pollDelivered \cup {msgs[k] : k \in 1..Len(msgs)}
    /\ lastCheckTime' = IF Len(msgs) > 0 THEN MaxDate(msgs, lastCheckTime) ELSE lastCheckTime
    /\ pollCalls' = RemoveAt(pollCalls, i)
    /\ UNCHANGED <<idleVars, contacts, sseTimes, pollTimer, sseHealthy, supportsUpdates,
                   sseDelivered, sendVars, roomVars>>

\* getUpdates answered 404 or 501: supportsUpdates is cleared, the poll sees no updates
PollUnsupported(i) ==
    /\ i \in 1..Len(pollCalls)
    /\ supportsUpdates' = FALSE
    /\ pollCalls' = RemoveAt(pollCalls, i)
    /\ UNCHANGED <<idleVars, contacts, sseTimes, pollTimer, sseHealthy, lastCheckTime,
                   recentlyEmittedGuids, emitted,
                   sseDelivered, pollDelivered, sendVars, roomVars>>

\* getUpdates failed otherwise: pollSwiftDaemon's catch logs the error
PollError(i) ==
    /\ i \in 1..Len(pollCalls)
    /\ pollCalls' = RemoveAt(pollCalls, i)
    /\ UNCHANGED <<idleVars, contacts, sseTimes, pollTimer, sseHealthy, supportsUpdates,
                   lastCheckTime, recentlyEmittedGuids,
                   emitted, sseDelivered, pollDelivered, sendVars, roomVars>>

\* subscribeToDaemonEvents onSseEvent(eventName)
onSseEvent ==
    /\ sseTimes' = [sseTimes EXCEPT !.lastSseEventAt = sseTimes.now]
    /\ UNCHANGED <<idleVars, contacts, pollTimer, sseHealthy, pollCalls, supportsUpdates,
                   lastCheckTime, recentlyEmittedGuids, emitted, sseDelivered, pollDelivered,
                   sendVars, roomVars>>

Watchdog_noFallback ==
    /\ UNCHANGED <<sseHealthy, pollTimer, sseTimes>>
    /\ UNCHANGED <<idleVars, contacts, pollCalls, supportsUpdates, lastCheckTime,
                   recentlyEmittedGuids, emitted, sseDelivered, pollDelivered, sendVars, roomVars>>

\* a tick of the watchdog interval (setInterval(..., SSE_WATCHDOG_INTERVAL_MS))
Watchdog ==
    /\ IF sseHealthy /\ sseTimes.now - sseTimes.lastSseEventAt > SSE_IDLE_TIMEOUT_MS
       THEN /\ setSseHealthy(FALSE)
            /\ sseTimes' = [sseTimes EXCEPT !.cause = "watchdog"]
       ELSE UNCHANGED <<sseHealthy, pollTimer, sseTimes>>
    /\ UNCHANGED <<idleVars, contacts, pollCalls, supportsUpdates, lastCheckTime,
                   recentlyEmittedGuids, emitted, sseDelivered, pollDelivered, sendVars, roomVars>>

\* time passes
ClockTick ==
    /\ sseTimes.now < MaxNow
    /\ sseTimes' = [sseTimes EXCEPT !.now = @ + 1]
    /\ UNCHANGED <<idleVars, contacts, pollTimer, sseHealthy, pollCalls, supportsUpdates,
                   lastCheckTime, recentlyEmittedGuids, emitted, sseDelivered, pollDelivered,
                   sendVars, roomVars>>

NextDelivery ==
    \/ onSseConnected
    \/ onSseDisconnected
    \/ \E m \in (FollowedGuids \cup {"other", "noGuid", "noChat"}) : onNewMessage(m)
    \/ PollTick
    \/ \E i \in 1..MaxPolls, msgs \in UpdatesFor(0) : PollResolve(i, msgs)
    \/ \E i \in 1..MaxPolls : PollUnsupported(i)
    \/ \E i \in 1..MaxPolls : PollError(i)

SpecDelivery == Init /\ [][NextDelivery]_vars

\* ------------------------------------------------------------------ contacts cache
\* emitContactsChanged: the address book changed and contacts_updated arrived;
\* onContactsChanged() is invalidateContactsCache()
emitContactsChanged ==
    /\ contacts.version < MaxVersion
    /\ contacts' = [contacts EXCEPT !.version = @ + 1, !.cache = 0]
    /\ UNCHANGED <<idleVars, sseTimes, pollTimer, sseHealthy, pollCalls, supportsUpdates,
                   lastCheckTime, recentlyEmittedGuids, emitted, sseDelivered, pollDelivered,
                   sendVars, roomVars>>

\* getContactsCached({}) within CONTACTS_CACHE_TTL_MS of the last fill: answers
\* from a non-empty cache, else awaits swiftDaemon.getContacts
getContactsCached ==
    /\ IF contacts.cache > 0
       THEN contacts' = [contacts EXCEPT !.last = [start |-> contacts.version,
                                                    served |-> contacts.cache]]
       ELSE /\ Len(contacts.fetches) < MaxFetches
            /\ contacts' = [contacts EXCEPT !.fetches =
                               Append(@, [start |-> contacts.version, data |-> contacts.version])]
    /\ UNCHANGED <<idleVars, sseTimes, pollTimer, sseHealthy, pollCalls, supportsUpdates,
                   lastCheckTime, recentlyEmittedGuids, emitted, sseDelivered, pollDelivered,
                   sendVars, roomVars>>

\* swiftDaemon.getContacts resolved: contactsCache = contacts; return contacts
getContactsResolved(i) ==
    /\ i \in 1..Len(contacts.fetches)
    /\ contacts' = [contacts EXCEPT !.cache = contacts.fetches[i].data,
                                    !.fetches = RemoveAt(@, i),
                                    !.last = [start |-> contacts.fetches[i].start,
                                              served |-> contacts.fetches[i].data]]
    /\ UNCHANGED <<idleVars, sseTimes, pollTimer, sseHealthy, pollCalls, supportsUpdates,
                   lastCheckTime, recentlyEmittedGuids, emitted, sseDelivered, pollDelivered,
                   sendVars, roomVars>>

NextContacts ==
    \/ emitContactsChanged
    \/ getContactsCached
    \/ \E i \in 1..MaxFetches : getContactsResolved(i)

SpecContacts == Init /\ [][NextContacts]_vars

\* ------------------------------------------------------------------ SSE health
\* the SSE health callbacks, the watchdog and the poll timer over time
NextHealth ==
    \/ onSseConnected
    \/ onSseDisconnected
    \/ onSseEvent
    \/ Watchdog
    \/ ClockTick
    \/ PollTick
    \/ \E i \in 1..MaxPolls : PollError(i)

SpecHealth == Init /\ [][NextHealth]_vars

\* the watchdog interval keeps firing
FairHealth == SpecHealth /\ WF_vars(Watchdog)

\* ------------------------------------------------------------------ routes and authentication
\* the routes that are registered with optionalAuthenticateToken, and those
\* registered with no middleware (routes/server.js, routes/auth.js)
ProtectedRoutes ==
    {"GET /api/v1/chats", "GET /api/v1/chat/:chatGuid", "GET /api/v1/chats/:chatGuid",
     "GET /api/v1/chat/:chatGuid/message"}
OpenRoutes == {"GET /api/v1/server/ping", "GET /api/v1/server/statistics/totals"}

\* (the model follows one read request per behaviour: every handler starts
\* from call.pc = "idle")
NewCall(op, cred) == [IdleCall EXCEPT !.op = op, !.cred = cred]
Finish(c, reply) == [c EXCEPT !.pc = "done", !.reply = reply]
\* the handler runs and awaits an upstream call
Await(c, pc) == [c EXCEPT !.pc = pc, !.ran = TRUE, !.upstream = @ + 1]

\* an upstream call that does not answer within the axios timeout rejects
Resolved(c, outcome) ==
    [c EXCEPT !.timedOut = @ \/ outcome = "timeout", !.failed = @ \/ outcome # "ok"]

\* GET /api/v1/server/ping: no middleware, no upstream call
ServerPing(cred) ==
    /\ (call.pc = "idle")
    /\ call' = Finish([NewCall("GET /api/v1/server/ping", cred) EXCEPT !.ran = TRUE],
                      sendSuccess(NoData, "Success"))
    /\ UNCHANGED <<conv, shaped, webhooks, sendVars, roomVars, deliveryVars>>

\* GET /api/v1/server/statistics/totals: no middleware; awaits getStatisticsTotals
StatisticsTotalsStart(cred) ==
    /\ (call.pc = "idle")
    /\ call' = Await(NewCall("GET /api/v1/server/statistics/totals", cred), "getStatisticsTotals")
    /\ UNCHANGED <<conv, shaped, webhooks, sendVars, roomVars, deliveryVars>>

\* ... and answers success with the daemon's totals, or with zeros when the call fails
StatisticsTotalsResolve(outcome) ==
    /\ call.pc = "getStatisticsTotals"
    /\ call' = Finish(Resolved(call, outcome), sendSuccess(NoData, "Success"))
    /\ UNCHANGED <<conv, shaped, webhooks, sendVars, roomVars, deliveryVars>>

\* POST /api/v1/auth: validatePassword(body.password), then generateToken
AuthLogin(cred) ==
    /\ (call.pc = "idle")
    /\ call' =
         LET c == [NewCall("POST /api/v1/auth", cred) EXCEPT !.ran = TRUE]
         IN  IF ~Truthy(cred.password) THEN Finish(c, jsonError(400, "Password is required"))
             ELSE IF ~Truthy(cred.configured) \/ Trim(cred.password) # Trim(cred.configured)
                  THEN Finish(c, jsonError(401, "Invalid password"))
                  ELSE Finish(c, sendSuccess(NoData, "Success"))
    /\ UNCHANGED <<conv, shaped, webhooks, sendVars, roomVars, deliveryVars>>

\* GET /api/v1/chats
ChatsListStart(cred) ==
    /\ (call.pc = "idle")
    /\ call' =
         LET c == NewCall("GET /api/v1/chats", cred)
             rejected == optionalAuthenticateToken(cred)
         IN  IF rejected.sent THEN Finish(c, rejected) ELSE Await(c, "getChatsList")
    /\ UNCHANGED <<conv, shaped, webhooks, sendVars, roomVars, deliveryVars>>

ChatsListResolve(outcome) ==
    /\ call.pc = "getChatsList"
    /\ call' =
         IF outcome = "ok" THEN Finish(Resolved(call, outcome), sendSuccess(NoData, "Success"))
         ELSE Finish(Resolved(call, outcome),
                     sendError(500, "Failed to fetch chats from Swift daemon", "Error"))
    /\ UNCHANGED <<conv, shaped, webhooks, sendVars, roomVars, deliveryVars>>

\* ------------------------------------------------------------------ conversation by id
\* conversation ids: Chat1 and "iMessage;-;15551234567" name the same address under two services

\* addressFromGuid(guid): the part after ";-;"
addressFromGuid(guid) ==
    CASE guid = Chat1 -> "+15551234567"
      [] guid = "iMessage;-;15551234567" -> "15551234567"
      [] guid = Chat2 -> "bob@example.com"
      [] guid = "iMessage;-;nobody@example.com" -> "nobody@example.com"
      [] guid = ServerPassword -> ServerPassword
      [] guid = "wrong" -> "wrong"
      [] OTHER -> ""

\* findChatByGuid(chats, chatGuid): the guids of the chats it may return
\* (the first match in the daemon's order), {} for null
findChatByGuid(chats, chatGuid) ==
    LET \* addr.replace(/^\+/, '').toLowerCase()
        normAddr(addr) == IF addr = "+15551234567" THEN "15551234567" ELSE addr
    IN
    IF chatGuid \in chats THEN {chatGuid}
    ELSE IF ~Truthy(addressFromGuid(chatGuid)) THEN {}
    ELSE {c \in chats : /\ Truthy(addressFromGuid(c))
                        /\ \/ normAddr(addressFromGuid(c)) = normAddr(addressFromGuid(chatGuid))
                           \/ addressFromGuid(c) = addressFromGuid(chatGuid)}

\* a chat record of a reply: the fields of toChatResponse the claims are about
chatData(guid) == [present |-> TRUE, chatGuid |-> guid, tempGuid |-> Undefined, error |-> 0]


\* GET /api/v1/chats/:chatGuid and GET /api/v1/chat/:chatGuid: await getChats()
ChatByIdStart(op, cred, chatGuid, store) ==
    /\ (call.pc = "idle")
    /\ call' =
         LET c == [NewCall(op, cred) EXCEPT !.id = chatGuid, !.store = store]
             rejected == optionalAuthenticateToken(cred)
         IN  IF rejected.sent THEN Finish(c, rejected) ELSE Await(c, "getChats")
    /\ UNCHANGED <<conv, shaped, webhooks, sendVars, roomVars, deliveryVars>>

\* getChats() rejects: both routes answer 500 with the client's error message
ChatByIdChatsFail(outcome) ==
    /\ call.pc = "getChats"
    /\ outcome # "ok"
    /\ call' = Finish(Resolved(call, outcome),
                      IF call.op = "get-chat"
                      THEN createServerErrorResponse("Failed to fetch chats from Swift daemon",
                                                     "Server Error", "Server Error", NoData)
                      ELSE sendError(500, "Failed to fetch chats from Swift daemon", "Error"))
    /\ UNCHANGED <<conv, shaped, webhooks, sendVars, roomVars, deliveryVars>>

\* getChats() resolves with the chats the daemon lists (recently active ones)
ChatByIdChatsOk(chats) ==
    /\ call.pc = "getChats"
    /\ chats \subseteq call.store
    /\ \/ /\ call.op = "GET /api/v1/chats/:chatGuid"
          /\ \/ /\ findChatByGuid(chats, call.id) = {}
                /\ call' = Finish(call, sendError(404, "Chat does not exist!", "Not Found"))
             \/ \E g \in findChatByGuid(chats, call.id) :
                    call' = Finish(call, sendSuccess(chatData(g), "Success"))
       \/ /\ call.op = "GET /api/v1/chat/:chatGuid"
          /\ LET queryGuid == IF Truthy(call.cred.guid) THEN call.cred.guid ELSE Null
                 byId == findChatByGuid(chats, call.id)
                 found == IF byId = {} /\ queryGuid # Null
                          THEN findChatByGuid(chats, queryGuid) ELSE byId
             IN  \/ /\ found = {}
                    /\ call' = Await(call, "getChat")
                 \/ \E g \in found : call' = Finish(call, sendSuccess(chatData(g), "Success"))
       \/ /\ call.op = "get-chat"
          /\ IF call.id \in chats
             THEN call' = Finish(call, createSuccessResponse(chatData(call.id)))
             ELSE call' = Finish(call, createBadRequestResponse("Chat does not exist (get-chat)!"))
    /\ UNCHANGED <<conv, shaped, webhooks, sendVars, roomVars, deliveryVars>>

\* GET /api/v1/chat/:chatGuid, chat not in the list: await getChat(chatGuid),
\* which resolves null on 404 and rejects on any other failure
ChatByIdDirect(outcome) ==
    /\ call.pc = "getChat"
    /\ call.op = "GET /api/v1/chat/:chatGuid"
    /\ LET c == Resolved(call, outcome)
           queryGuid == IF Truthy(call.cred.guid) THEN call.cred.guid ELSE Null
       IN  call' =
             IF outcome # "ok" THEN Finish(c, sendError(500, "Failed to fetch chat", "Error"))
             ELSE IF call.id \in call.store
                  THEN Finish(c, sendSuccess(chatData(call.id), "Success"))
             ELSE IF queryGuid # Null /\ queryGuid # call.id
                  THEN Await(c, "getChatByQuery")
             ELSE Finish(c, sendError(404, "Chat does not exist!", "Not Found"))
    /\ UNCHANGED <<conv, shaped, webhooks, sendVars, roomVars, deliveryVars>>

\* ... then getChat(queryGuid)
ChatByIdDirectByQuery(outcome) ==
    /\ call.pc = "getChatByQuery"
    /\ LET c == Resolved(call, outcome)
       IN  call' =
             IF outcome # "ok" THEN Finish(c, sendError(500, "Failed to fetch chat", "Error"))
             ELSE IF call.cred.guid \in call.store
                  THEN Finish(c, sendSuccess(chatData(call.cred.guid), "Success"))
             ELSE Finish(c, sendError(404, "Chat does not exist!", "Not Found"))
    /\ UNCHANGED <<conv, shaped, webhooks, sendVars, roomVars, deliveryVars>>

\* socket get-chat: bad request without a chatGuid, else await getChats()
SocketGetChatStart(chatGuid, store) ==
    /\ (call.pc = "idle")
    /\ call' =
         LET c == [NewCall("get-chat", NoCred) EXCEPT !.id = chatGuid, !.store = store,
                                                       !.ran = TRUE]
         IN  IF ~Truthy(chatGuid)
             THEN Finish(c, createBadRequestResponse("No chat GUID provided"))
             ELSE Await(c, "getChats")
    /\ UNCHANGED <<conv, shaped, webhooks, sendVars, roomVars, deliveryVars>>

\* ------------------------------------------------------------------ timestamp codec
\* Timestamps exceed the range of the model checker's integers, so a number
\* is written in base 10^6 as <<h, m, l>> = h * 10^12 + m * 10^6 + l.
\* JavaScript numbers are IEEE 754 doubles: an integer above 2^53 is rounded
\* to 53 significant bits (round to nearest, ties to even) by every
\* operation that produces it, the JSON parser included.
Base == 1000000

NumLt(a, b) ==
    \/ a[1] < b[1]
    \/ a[1] = b[1] /\ a[2] < b[2]
    \/ a[1] = b[1] /\ a[2] = b[2] /\ a[3] < b[3]

NumLeq(a, b) == a = b \/ NumLt(a, b)

NumAdd(a, b) ==
    LET l == a[3] + b[3]
        m == a[2] + b[2] + (l \div Base)
    IN  <<a[1] + b[1] + (m \div Base), m % Base, l % Base>>

\* a - b for a >= b
NumSub(a, b) ==
    LET l == a[3] - b[3] + Base
        m == a[2] - b[2] + (Base - 1) + (l \div Base)
    IN  <<a[1] - b[1] - 1 + (m \div Base), m % Base, l % Base>>

\* null or undefined where a number is expected
NullNum == <<-1, 0, 0>>

\* the powers of two 2^0 .. 2^63, Pow2[e + 1] = 2^e
Pow2 ==
    <<
      <<0, 0, 1>>,
      <<0, 0, 2>>,
      <<0, 0, 4>>,
      <<0, 0, 8>>,
      <<0, 0, 16>>,
      <<0, 0, 32>>,
      <<0, 0, 64>>,
      <<0, 0, 128>>,
      <<0, 0, 256>>,
      <<0, 0, 512>>,
      <<0, 0, 1024>>,
      <<0, 0, 2048>>,
      <<0, 0, 4096>>,
      <<0, 0, 8192>>,
      <<0, 0, 16384>>,
      <<0, 0, 32768>>,
      <<0, 0, 65536>>,
      <<0, 0, 131072>>,
      <<0, 0, 262144>>,
      <<0, 0, 524288>>,
      <<0, 1, 48576>>,
      <<0, 2, 97152>>,
      <<0, 4, 194304>>,
      <<0, 8, 388608>>,
      <<0, 16, 777216>>,
      <<0, 33, 554432>>,
      <<0, 67, 108864>>,
      <<0, 134, 217728>>,
      <<0, 268, 435456>>,
      <<0, 536, 870912>>,
      <<0, 1073, 741824>>,
      <<0, 2147, 483648>>,
      <<0, 4294, 967296>>,
      <<0, 8589, 934592>>,
      <<0, 17179, 869184>>,
      <<0, 34359, 738368>>,
      <<0, 68719, 476736>>,
      <<0, 137438, 953472>>,
      <<0, 274877, 906944>>,
      <<0, 549755, 813888>>,
      <<1, 99511, 627776>>,
      <<2, 199023, 255552>>,
      <<4, 398046, 511104>>,
      <<8, 796093, 22208>>,
      <<17, 592186, 44416>>,
      <<35, 184372, 88832>>,
      <<70, 368744, 177664>>,
      <<140, 737488, 355328>>,
      <<281, 474976, 710656>>,
      <<562, 949953, 421312>>,
      <<1125, 899906, 842624>>,
      <<2251, 799813, 685248>>,
      <<4503, 599627, 370496>>,
      <<9007, 199254, 740992>>,
      <<18014, 398509, 481984>>,
      <<36028, 797018, 963968>>,
      <<72057, 594037, 927936>>,
      <<144115, 188075, 855872>>,
      <<288230, 376151, 711744>>,
      <<576460, 752303, 423488>>,
      <<1152921, 504606, 846976>>,
      <<2305843, 9213, 693952>>,
      <<4611686, 18427, 387904>>,
      <<9223372, 36854, 775808>>
    >>

\* floor(log2(n)) for 1 <= n < 2^63
FloorLog2(n) == CHOOSE e \in 0..62 : NumLeq(Pow2[e + 1], n) /\ NumLt(n, Pow2[e + 2])

\* n mod u for a power of two u <= 4096 (10^12 is a multiple of 4096)
ModPow2(n, u) == ((n[2] % u) * (Base % u) + n[3]) % u

\* the double nearest to the integer n (ties to even), for n < 2^63
Round53(n) ==
    IF NumLt(n, Pow2[54]) THEN n
    ELSE LET u == 2 ^ (FloorLog2(n) - 52)
             r == ModPow2(n, u)
             down == NumSub(n, <<0, 0, r>>)
             up == NumAdd(n, <<0, 0, u - r>>)
         IN  IF 2 * r < u THEN down
             ELSE IF 2 * r > u THEN up
             ELSE IF ModPow2(n, 2 * u) = r THEN down ELSE up

\* UNIX_EPOCH_2001_MS = 978307200000
UNIX_EPOCH_2001_MS == <<0, 978307, 200000>>
\* Math.trunc(v / 1e6 + UNIX_EPOCH_2001_MS) for an integer double v > 0:
\* the quotient q + l / 10^6 is rounded to a double, the sum is rounded again,
\* and the result is q + epoch, or one more when the two roundings carry the
\* fraction up to 1
TruncDivAdd(v) ==
    LET q == <<v[1] \div Base, v[1] % Base, v[2]>>
        sum == NumAdd(q, UNIX_EPOCH_2001_MS)
        D == Base - v[3]
        a == 52 - FloorLog2(sum)
        A == D * (2 ^ (a - 5)) - 15625
        j == (52 - FloorLog2(q)) - a
        carries ==
            IF q = <<0, 0, 0>> \/ j = 0 THEN A <= 0
            ELSE A <= 0 \/ (j <= 13 /\ A <= 15625 /\ A * (2 ^ j) <= 15625)
    IN  IF v[3] = 0 THEN sum
        ELSE IF carries THEN NumAdd(sum, <<0, 0, 1>>) ELSE sum

\* toClientTimestamp(value), value null or a non-negative integer double
toClientTimestamp(value) ==
    IF value = NullNum \/ value = <<0, 0, 0>> THEN NullNum
    ELSE IF NumLt(<<1000, 0, 0>>, value) THEN TruncDivAdd(value)
    ELSE IF NumLeq(<<1, 0, 0>>, value) /\ NumLeq(value, <<8640, 0, 0>>) THEN value
    ELSE TruncDivAdd(value)

\* unixMsToAppleNs(unixMs), unixMs null or a non-negative integer double
unixMsToAppleNs(unixMs) ==
    IF unixMs = NullNum THEN <<0, 0, 0>>
    ELSE LET msSince2001 == IF NumLt(unixMs, UNIX_EPOCH_2001_MS) THEN <<0, 0, 0>>
                            ELSE NumSub(unixMs, UNIX_EPOCH_2001_MS)
             \* Math.trunc(msSince2001 * 1e6): the product rounded to a double
         IN  Round53(<<msSince2001[1] * Base + msSince2001[2], msSince2001[3], 0>>)

\* ------------------------------------------------------------------ message lists
\* the `before` a client sends (client milliseconds), or none
BeforeInputs ==
    {NullNum, <<0, 0, 1000>>, UNIX_EPOCH_2001_MS, <<1, 700000, 0>>, <<1, 700000, 3>>}

\* message.date values in the daemon's database (nanoseconds since 2001)
DaemonDates ==
    {<<721692, 799999, 999744>>, <<721692, 799999, 999872>>, <<721692, 800000, 640>>,
     <<721692, 800003, 10>>}


\* clientTimeToAppleNs(value) of the socket events
clientTimeToAppleNs(value) ==
    IF value = NullNum THEN NullNum
    ELSE IF NumLt(<<1000, 0, 0>>, value) THEN value
    ELSE unixMsToAppleNs(value)

\* the handler calls getMessages with the cursor it computed;
\* swiftDaemon.getMessages(chatGuid, limit, before): `if (before) params.before = before`
AwaitMessages(c, cursor) ==
    LET carries == cursor # NullNum /\ cursor # <<0, 0, 0>>
    IN  [Await(c, "getMessages") EXCEPT !.sentCursor = carries,
                                         !.cursor = IF carries THEN cursor ELSE NullNum]

\* GET /api/v1/chat/:chatGuid/message: await getChat(chatGuid) first
MessageListStart(cred, chatGuid, store, before) ==
    /\ (call.pc = "idle")
    /\ call' =
         LET c == [NewCall("GET /api/v1/chat/:chatGuid/message", cred) EXCEPT
                       !.id = chatGuid, !.store = store, !.before = before]
             rejected == optionalAuthenticateToken(cred)
         IN  IF rejected.sent THEN Finish(c, rejected) ELSE Await(c, "getChat")
    /\ UNCHANGED <<conv, shaped, webhooks, sendVars, roomVars, deliveryVars>>

\* getChat resolved: 404 for null, 500 when it rejected, else await getMessages
\* with beforeAppleNs || undefined
MessageListChat(outcome) ==
    /\ call.pc = "getChat"
    /\ call.op = "GET /api/v1/chat/:chatGuid/message"
    /\ LET c == Resolved(call, outcome)
           beforeAppleNs == IF call.before # NullNum THEN unixMsToAppleNs(call.before)
                            ELSE NullNum
       IN  call' =
             IF outcome # "ok" THEN Finish(c, sendError(500, "Failed to fetch chat", "Error"))
             ELSE IF call.id \notin call.store THEN Finish(c, sendError(404, "Chat does not exist!", "Not Found"))
             ELSE AwaitMessages(c, IF beforeAppleNs = NullNum \/ beforeAppleNs = <<0, 0, 0>>
                                   THEN NullNum ELSE beforeAppleNs)
    /\ UNCHANGED <<conv, shaped, webhooks, sendVars, roomVars, deliveryVars>>

\* socket get-chat-messages
SocketChatMessagesStart(identifier, before) ==
    /\ (call.pc = "idle")
    /\ call' =
         LET c == [NewCall("get-chat-messages", NoCred) EXCEPT
                       !.id = identifier, !.before = before, !.ran = TRUE]
         IN  IF ~Truthy(identifier)
             THEN Finish(c, createBadRequestResponse("No chat identifier provided"))
             ELSE AwaitMessages(c, clientTimeToAppleNs(before))
    /\ UNCHANGED <<conv, shaped, webhooks, sendVars, roomVars, deliveryVars>>

\* socket get-messages
SocketMessagesStart(chatGuid, hasAfterOrLimit, before) ==
    /\ (call.pc = "idle")
    /\ call' =
         LET c == [NewCall("get-messages", NoCred) EXCEPT
                       !.id = chatGuid, !.before = before, !.ran = TRUE]
         IN  IF ~hasAfterOrLimit
             THEN Finish(c, createBadRequestResponse("No after date or limit provided!"))
             ELSE IF ~Truthy(chatGuid) THEN Finish(c, createSuccessResponse(NoData))
             ELSE AwaitMessages(c, clientTimeToAppleNs(before))
    /\ UNCHANGED <<conv, shaped, webhooks, sendVars, roomVars, deliveryVars>>

\* the message dates the daemon may answer with: those strictly older than
\* the cursor it received, all of them when it received none
DaemonAnswers(c) ==
    {<<>>} \cup {<<d>> : d \in {x \in DaemonDates : ~c.sentCursor \/ NumLt(x, c.cursor)}}

\* getMessages resolved with the daemon's messages
MessagesOk(msgs) ==
    /\ call.pc = "getMessages"
    /\ msgs \in DaemonAnswers(call)
    /\ call' =
         LET c == [call EXCEPT !.dates = [i \in 1..Len(msgs) |-> toClientTimestamp(Round53(msgs[i]))]]
         IN  IF call.op = "GET /api/v1/chat/:chatGuid/message"
             THEN Finish(c, sendSuccess(NoData, "Success"))
             ELSE Finish(c, createSuccessResponse(NoData))
    /\ UNCHANGED <<conv, shaped, webhooks, sendVars, roomVars, deliveryVars>>

\* getMessages rejected: Error('Failed to fetch messages') whatever the cause
MessagesFail(outcome) ==
    /\ call.pc = "getMessages"
    /\ outcome # "ok"
    /\ call' =
         IF call.op = "GET /api/v1/chat/:chatGuid/message"
         THEN Finish(Resolved(call, outcome), sendError(500, "Failed to fetch messages", "Error"))
         ELSE Finish(Resolved(call, outcome),
                     createServerErrorResponse("Failed to fetch messages", "Server Error",
                                               "Server Error", NoData))
    /\ UNCHANGED <<conv, shaped, webhooks, sendVars, roomVars, deliveryVars>>

NextApi ==
    \/ \E cred \in CredInputs : ServerPing(cred)
    \/ \E cred \in CredInputs : StatisticsTotalsStart(cred)
    \/ \E o \in {"ok", "error", "timeout"} : StatisticsTotalsResolve(o)
    \/ \E cred \in CredInputs : AuthLogin(cred)
    \/ \E cred \in CredInputs : ChatsListStart(cred)
    \/ \E o \in {"ok", "error", "timeout"} : ChatsListResolve(o)
    \/ \E op \in {"GET /api/v1/chat/:chatGuid", "GET /api/v1/chats/:chatGuid"},
          cred \in CredInputs, g \in {Chat1, Chat2, "iMessage;-;nobody@example.com"},
          st \in SUBSET {Chat1, "iMessage;-;15551234567", Chat2} : ChatByIdStart(op, cred, g, st)
    \/ \E o \in {"ok", "error", "timeout"} : ChatByIdChatsFail(o)
    \/ \E chats \in (SUBSET {Chat1, "iMessage;-;15551234567", Chat2}) : ChatByIdChatsOk(chats)
    \/ \E o \in {"ok", "error", "timeout"} : ChatByIdDirect(o)
    \/ \E o \in {"ok", "error", "timeout"} : ChatByIdDirectByQuery(o)
    \/ \E g \in {Chat1, Chat2, "iMessage;-;nobody@example.com", Undefined},
          st \in SUBSET {Chat1, "iMessage;-;15551234567", Chat2} : SocketGetChatStart(g, st)
    \/ \E cred \in CredInputs, g \in {Chat1, Chat2, "iMessage;-;nobody@example.com"},
          st \in SUBSET {Chat1, "iMessage;-;15551234567", Chat2}, b \in BeforeInputs :
          MessageListStart(cred, g, st, b)
    \/ \E o \in {"ok", "error", "timeout"} : MessageListChat(o)
    \/ \E g \in {Chat1, Undefined}, b \in BeforeInputs : SocketChatMessagesStart(g, b)
    \/ \E g \in {Chat1, Undefined}, h \in BOOLEAN, b \in BeforeInputs :
          SocketMessagesStart(g, h, b)
    \/ \E msgs \in {<<>>} \cup {<<d>> : d \in DaemonDates} : MessagesOk(msgs)
    \/ \E o \in {"ok", "error", "timeout"} : MessagesFail(o)

SpecApi == Init /\ [][NextApi]_vars

\* ------------------------------------------------------------------ codec calls
\* client millisecond values: before and at the 2001 epoch, around the values
\* whose nanosecond form crosses 1e12 and 1e15, and present-day values
MsInputs ==
    {NumAdd(b, <<0, 0, o>>) :
        b \in {<<0, 0, 1000>>, UNIX_EPOCH_2001_MS, <<0, 978308, 199998>>,
               <<0, 979307, 199998>>, <<1, 700000, 0>>, <<3, 824266, 47714>>},
        o \in 0..MaxOff}

\* upstream values as the daemon's JSON carries them
NsInputs ==
    {Round53(NumAdd(b, <<0, 0, o>>)) :
        b \in {<<0, 0, 1>>, <<0, 5, 999937>>, <<0, 999999, 999998>>, <<999, 999999, 999998>>,
               <<8639, 999999, 999999>>, <<721692, 799999, 999744>>,
               <<721692, 799999, 999872>>},
        o \in 0..MaxOff}

ConvertToUpstream(M) ==
    /\ conv' = [op |-> "unixMsToAppleNs", arg |-> M, ret |-> unixMsToAppleNs(M)]
    /\ UNCHANGED <<call, shaped, webhooks, sendVars, roomVars, deliveryVars>>

ConvertToClient(V) ==
    /\ conv' = [op |-> "toClientTimestamp", arg |-> V, ret |-> toClientTimestamp(V)]
    /\ UNCHANGED <<call, shaped, webhooks, sendVars, roomVars, deliveryVars>>

\* toClientTimestamp(unixMsToAppleNs(M))
RoundTrip(M) ==
    /\ conv' = [op |-> "roundTrip", arg |-> M, ret |-> toClientTimestamp(unixMsToAppleNs(M))]
    /\ UNCHANGED <<call, shaped, webhooks, sendVars, roomVars, deliveryVars>>

\* toClientTimestamp of two upstream values
ConvertPair(V1, V2) ==
    /\ conv' = [op |-> "pair", arg |-> <<V1, V2>>,
                ret |-> <<toClientTimestamp(V1), toClientTimestamp(V2)>>]
    /\ UNCHANGED <<call, shaped, webhooks, sendVars, roomVars, deliveryVars>>

NextCodec ==
    \/ \E M \in MsInputs \cup {NullNum} : ConvertToUpstream(M)
    \/ \E V \in NsInputs \cup {NullNum, <<0, 0, 0>>} : ConvertToClient(V)
    \/ \E M \in MsInputs : RoundTrip(M)
    \/ \E V1 \in NsInputs, V2 \in NsInputs : ConvertPair(V1, V2)

SpecCodec == Init /\ [][NextCodec]_vars

\* ------------------------------------------------------------------ response shaping
\* An upstream record is the set of the fields it carries.  A shaped field is
\* "value" when it comes from the record (or is derived from it), the typed
\* default the code substitutes, Undefined, or "absent" when the key is missing.

Or(present, field, default) == IF field \in present THEN "value" ELSE default

ChatCanonicalFields ==
    {"originalROWID", "guid", "style", "chatIdentifier", "isArchived", "displayName",
     "isFiltered", "groupId", "properties", "lastAddressedHandle"}

\* toChatResponse(chat, { includeParticipants, includeMessages, includeLastMessage })
\* of the chat routes: guid.includes(';') throws when chat.guid is missing
toChatResponse(present, includeParticipants, includeMessages, includeLastMessage) ==
    IF "guid" \notin present THEN [threw |-> TRUE, out |-> <<>>]
    ELSE [threw |-> FALSE,
          out |-> [f \in ChatCanonicalFields \cup {"lastMessage", "participants", "messages"} |->
             CASE f = "originalROWID" -> "0"
               [] f = "guid" -> "value"
               [] f = "style" -> "0"
               [] f = "chatIdentifier" -> "value"
               [] f = "isArchived" -> Or(present, "isArchived", "false")
               [] f = "displayName" -> "value"
               [] f = "isFiltered" -> "false"
               [] f = "groupId" -> "''"
               [] f = "properties" -> "{}"
               [] f = "lastAddressedHandle" -> "null"
               [] f = "lastMessage" -> IF includeLastMessage THEN "value" ELSE "absent"
               [] f = "participants" ->
                     IF includeParticipants THEN Or(present, "participants", "[]") ELSE "absent"
               [] f = "messages" -> IF includeMessages THEN "[]" ELSE "absent"]]

MessageCanonicalFields ==
    {"originalROWID", "guid", "text", "handle", "handleId", "otherHandle", "chats",
     "attachments", "subject", "error", "dateCreated", "dateRead", "dateDelivered",
     "isFromMe", "isArchived", "itemType", "groupTitle", "groupActionType",
     "balloonBundleId", "associatedMessageGuid", "associatedMessageType", "chatGuid"}

\* toMessageResponse(msg, chatGuid, chats = null, opts = {})
toMessageResponse(present, chatGuid, chats) ==
    [threw |-> FALSE,
     out |-> [f \in MessageCanonicalFields \cup {"tempGuid"} |->
        CASE f = "tempGuid" -> Or(present, "tempGuid", "absent")
          [] f = "guid" -> Or(present, "guid", "null")
          [] f = "text" -> Or(present, "text", "''")
          [] f = "handleId" -> Or(present, "handleId", "0")
          [] f = "chats" -> IF chats THEN "value" ELSE Undefined
          [] f = "attachments" -> Or(present, "attachments", "[]")
          [] f = "dateCreated" -> "value"
          [] f = "chatGuid" -> IF chatGuid THEN "value" ELSE Or(present, "chatGuid", "null")
          [] f \in {"originalROWID", "otherHandle", "error", "itemType", "groupActionType"} -> "0"
          [] f = "subject" -> "''"
          [] f \in {"isFromMe", "isArchived"} -> "false"
          [] OTHER -> "null"]]

ShapeChat(present, includeParticipants, includeMessages, includeLastMessage) ==
    /\ shaped' =
         LET res == toChatResponse(present, includeParticipants, includeMessages,
                                   includeLastMessage)
         IN  [op |-> "toChatResponse", present |-> present, threw |-> res.threw, out |-> res.out]
    /\ UNCHANGED <<call, conv, webhooks, sendVars, roomVars, deliveryVars>>

ShapeMessage(present, chatGuid, chats) ==
    /\ shaped' =
         LET res == toMessageResponse(present, chatGuid, chats)
         IN  [op |-> "toMessageResponse", present |-> present, threw |-> res.threw,
              out |-> res.out]
    /\ UNCHANGED <<call, conv, webhooks, sendVars, roomVars, deliveryVars>>

NextShape ==
    \/ \E present \in SUBSET {"guid", "displayName", "lastMessageDate", "last_message_date",
                               "isArchived", "participants"},
          p \in BOOLEAN, m \in BOOLEAN, l \in BOOLEAN :
          ShapeChat(present, p, m, l)
    \/ \E present \in SUBSET {"guid", "text", "dateCreated", "handleId", "tempGuid",
                               "chatGuid", "attachments"},
          g \in BOOLEAN, c \in BOOLEAN :
          ShapeMessage(present, g, c)

SpecShape == Init /\ [][NextShape]_vars

\* ------------------------------------------------------------------ claims: sending
\* C1 as written: two send requests that carry the same client-supplied
\* tempGuid never both have an upstream send in flight.
C1_Original ==
    \A r1, r2 \in Req :
        (/\ r1 # r2
         /\ reqs[r1].kind \in {"rest-text", "rest-attachment", "send-message", "send-message-chunk"}
         /\ reqs[r2].kind \in {"rest-text", "rest-attachment", "send-message", "send-message-chunk"}
         /\ Truthy(reqs[r1].clientTok) /\ reqs[r1].clientTok = reqs[r2].clientTok)
        => ~(reqs[r1].pc = "sending" /\ reqs[r2].pc = "sending")

\* C2: a handler that inserted its tempGuid into the send cache has removed it
\* when it finishes, on success and on failure, so that with no send in
\* flight the cache is empty and find reports no token as queued.
C2_CacheReleased ==
    /\ \A r \in Req : (reqs[r].pc = "done" /\ reqs[r].added) =>
          (reqs[r].released /\ (reqs[r].tok \notin Range(items)
                                \/ \E q \in Req : q # r /\ reqs[q].pc = "sending"
                                                  /\ reqs[q].tok = reqs[r].tok))
    /\ (\A r \in Req : reqs[r].pc # "sending") =>
          (items = <<>> /\ \A t \in CacheArgs : find(items, t) = Null)

\* C2 witness: a send with token abc123 failed upstream, and a retry with the
\* same token has been accepted and is in flight.
C2_Witness ==
    \E r1, r2 \in Req :
        /\ reqs[r1].pc = "done" /\ reqs[r1].outcome = "fail" /\ reqs[r1].added
        /\ reqs[r1].tok = StrTok /\ reqs[r2].tok = StrTok
        /\ reqs[r2].pc = "sending" /\ reqs[r2].added

\* C4 (as amended): a send request rejected because its tempGuid is already in
\* flight is answered, without any upstream call, with a bad-request error
\* (status 400) of the same class as the one the same operation gives for a
\* missing required field; only the error text tells them apart.
C4_DuplicateIsBadRequest ==
    /\ \A r \in Req : reqs[r].reply.error = AlreadyQueued =>
          /\ reqs[r].reply.status = 400
          /\ reqs[r].upstream = 0
          /\ ~reqs[r].reply.data.present
    /\ \A r1, r2 \in Req :
          (/\ reqs[r1].kind = reqs[r2].kind
           /\ reqs[r1].reply.error = AlreadyQueued /\ reqs[r2].reply.error = FieldRequired)
          => /\ reqs[r1].reply.status = reqs[r2].reply.status
             /\ reqs[r1].reply.message = reqs[r2].reply.message
             /\ reqs[r1].reply.errType = reqs[r2].reply.errType

\* C4 witness: a socket send-message was rejected as already queued while the
\* first request with that token is still in flight.
C4_Witness ==
    \E r1, r2 \in Req :
        /\ reqs[r1].pc = "sending" /\ reqs[r1].tok = StrTok
        /\ reqs[r2].pc = "done" /\ reqs[r2].kind = "send-message" /\ reqs[r2].tok = StrTok
        /\ reqs[r2].reply.error = AlreadyQueued

\* C4 as written: the rejection of a duplicate is of another class than bad request.
C4_Original ==
    \A r \in Req : reqs[r].reply.error = AlreadyQueued => reqs[r].reply.status # 400

\* C5 as written: every send whose upstream send succeeded called upstream
\* once, replied with the created message record (conversation id, original
\* token, error marker 0) and broadcast 'message.created' once to the room.
C5_Original ==
    \A r \in Req : (reqs[r].pc = "done" /\ reqs[r].outcome = "ok") =>
        /\ reqs[r].upstream = 1
        /\ reqs[r].reply.sent /\ reqs[r].reply.data.present
        /\ reqs[r].reply.data.chatGuid = reqs[r].chat
        /\ Truthy(reqs[r].clientTok) => reqs[r].reply.data.tempGuid = reqs[r].clientTok
        /\ reqs[r].reply.data.error = 0
        /\ reqs[r].bcast = 1 /\ reqs[r].bcastRoom = reqs[r].chat

\* C6 as written: every send whose upstream send failed answers with a message
\* record that carries the original tempGuid and a non-zero error marker.
C6_Original ==
    \A r \in Req :
      (/\ reqs[r].pc = "done"
       /\ reqs[r].outcome = "fail"
       /\ reqs[r].kind \in {"rest-text", "rest-attachment", "send-message", "send-message-chunk"}) =>
        /\ reqs[r].reply.sent /\ reqs[r].reply.data.present
        /\ Truthy(reqs[r].clientTok) => reqs[r].reply.data.tempGuid = reqs[r].clientTok
        /\ reqs[r].reply.data.error # 0

\* C26: a send request that is rejected, or that fails before it inserted its
\* own token, never removes the cache entry another in-flight request
\* inserted for the same token: while the request that inserted an entry
\* awaits its upstream send, the entry is in the cache.
C26_Original ==
    \A r \in Req :
        (reqs[r].pc = "sending" /\ reqs[r].added) => find(items, reqs[r].tok) # Null

\* C27: whenever a send handler has an upstream send in flight for a request
\* carrying client token T, find(T) reports T, for every truthy token value a
\* client can supply, including non-string JSON values such as numbers.
C27_Original ==
    \A r \in Req :
        (/\ reqs[r].pc = "sending"
         /\ reqs[r].kind \in {"rest-text", "rest-attachment", "send-message", "send-message-chunk"}
         /\ Truthy(reqs[r].clientTok))
            => find(items, reqs[r].clientTok) # Null

\* C30: the server password a client supplies is never used as the
\* conversation id of an upstream send and never as the name of a broadcast
\* room, whichever query parameter carried it.
C30_Original ==
    \A r \in Req :
        /\ reqs[r].upstream > 0 => reqs[r].chat # ServerPassword
        /\ reqs[r].bcast > 0 => reqs[r].bcastRoom # ServerPassword

\* ------------------------------------------------------------------ claims: authentication and errors
\* the request carries the configured password in its password parameter
PasswordMatches(cred) ==
    /\ Truthy(cred.configured)
    /\ Truthy(cred.password)
    /\ Trim(cred.password) = Trim(cred.configured)

\* C11: every /api/v1 route other than POST /api/v1/auth answers a request
\* whose password parameter is missing or does not match the configured
\* password with 401, and does not run the route's handler.
C11_Original ==
    (call.op \in ProtectedRoutes \cup OpenRoutes /\ ~PasswordMatches(call.cred))
        => (~call.ran /\ (call.pc = "done" => call.reply.status = 401))

\* C12: a request to an authenticated route with a valid bearer token and no
\* password query parameter is accepted: the handler runs.
C12_Original ==
    (/\ call.op \in ProtectedRoutes
     /\ call.cred.configured = ServerPassword
     /\ call.cred.bearer = "Bearer jwt"
     /\ call.cred.password = Undefined)
        => (call.ran /\ call.reply.status # 401)

\* C13: a request that fails authentication, or a request or event that
\* lacks a required field, never causes a call to the upstream daemon.
C13_Original ==
    /\ LET \* the request authenticates in one of the documented ways: the
           \* password in ?password= or in its alias ?guid=, or a bearer token
           Authenticated(cred) ==
               /\ Truthy(cred.configured)
               /\ \/ PasswordMatches(cred)
                  \/ Truthy(cred.guid) /\ Trim(cred.guid) = Trim(cred.configured)
                  \/ cred.bearer = "Bearer jwt"
       IN  (call.op \in ProtectedRoutes \cup OpenRoutes /\ ~Authenticated(call.cred))
              => call.upstream = 0
    /\ (call.op \in {"get-chat", "get-chat-messages"} /\ ~Truthy(call.id))
          => call.upstream = 0
    /\ \A r \in Req : (reqs[r].reply.sent /\ reqs[r].reply.error = FieldRequired)
          => reqs[r].upstream = 0


\* C14: for every get-conversation-by-id operation, when the daemon is
\* reachable and holds no conversation with the requested id, the response
\* is a not-found-class error: not a server error, not a bad request, not a
\* success carrying another conversation.
C14_Original ==
    (/\ call.op \in {"GET /api/v1/chat/:chatGuid", "GET /api/v1/chats/:chatGuid", "get-chat"}
     /\ call.pc = "done"
     /\ call.ran
     /\ ~call.failed
     /\ Truthy(call.id)
     /\ call.id \notin call.store)
        => call.reply.status = 404

\* C15: when an upstream call times out, the client-visible response is a
\* gateway-timeout-class error, distinguishable from the server-error class
\* of other upstream failures.  (Stated for the operations that surface
\* upstream failures; the statistics route answers zeros instead.)
C15_Original ==
    (/\ call.pc = "done"
     /\ call.timedOut
     /\ call.op # "GET /api/v1/server/statistics/totals")
        => call.reply.status = 504

\* C18: for the message-list operations, a numeric `before` in client
\* milliseconds reaches getMessages as unixMsToAppleNs(before), and, the
\* daemon returning only messages strictly older than the cursor it receives,
\* no message of the reply has a dateCreated at or after `before`.  (Stated
\* for `before` values after the 2001 epoch, where the cursor is not zero.)
C18_Original ==
    (/\ call.op \in {"GET /api/v1/chat/:chatGuid/message", "get-chat-messages", "get-messages"}
     /\ call.pc = "done"
     /\ NumLt(UNIX_EPOCH_2001_MS, call.before)
     /\ call.upstream > 0
     /\ call.reply.status = 200
     /\ Truthy(call.id))
        => /\ call.sentCursor
           /\ call.cursor = unixMsToAppleNs(call.before)
           /\ \A i \in 1..Len(call.dates) : NumLt(call.dates[i], call.before)

\* C19: the reply to a successful send does not wait for the outbound
\* webhook and is the same whether the webhook is pending, delivered or
\* failed; a webhook failure never turns the send response into an error.
C19_ReplyIgnoresWebhook ==
    \A r \in Req :
        webhooks[r] # "none" =>
            /\ reqs[r].kind \in {"rest-text", "rest-attachment"}
            /\ reqs[r].pc = "done"
            /\ reqs[r].outcome = "ok"
            /\ reqs[r].reply =
                 sendSuccess(toMessagePayload(reqs[r].chat, reqs[r].tok, 0),
                             IF reqs[r].kind = "rest-text" THEN "Message sent!"
                             ELSE "Attachment sent!")

C19_Witness ==
    \E r \in Req :
        /\ webhooks[r] = "failed"
        /\ reqs[r].kind = "rest-text"
        /\ reqs[r].reply.status = 200
        /\ reqs[r].reply.data.present

\* ------------------------------------------------------------------ claims: codec and shaping
\* C16: for every client-millisecond value M at or after the epoch offset
\* 978307200000, toClientTimestamp(unixMsToAppleNs(M)) equals M, and the
\* round trip is never greater than M.
C16_Original ==
    (conv.op = "roundTrip" /\ NumLeq(UNIX_EPOCH_2001_MS, conv.arg)) => conv.ret = conv.arg

\* C17: toClientTimestamp is non-negative and monotonic over positive
\* upstream values: V1 < V2 implies toClientTimestamp(V1) <= toClientTimestamp(V2),
\* also across the 1e12 and 1e15 thresholds.
C17_Original ==
    (conv.op = "pair" /\ NumLt(conv.arg[1], conv.arg[2]))
        => /\ conv.ret[1] # NullNum
           /\ conv.ret[2] # NullNum
           /\ NumLeq(conv.ret[1], conv.ret[2])

\* C20: response shaping is total: for an upstream conversation or message
\* record with any subset of its fields missing, toChatResponse and
\* toMessageResponse return (never throw) a record whose canonical fields are
\* all present with a typed default, none undefined or absent.
C20_Original ==
    /\ ~shaped.threw
    /\ shaped.op = "toChatResponse"
          => \A f \in ChatCanonicalFields : shaped.out[f] \notin {Undefined, "absent"}
    /\ shaped.op = "toMessageResponse"
          => \A f \in MessageCanonicalFields : shaped.out[f] \notin {Undefined, "absent"}

\* ------------------------------------------------------------------ claims: rooms
\* C9: for every connected socket, the rooms of its device info are exactly
\* the chatGuids it joined by join_chat and has not left by leave_chat since,
\* and chatRooms[g] holds its id for exactly those chatGuids g.
C9_RoomsAreJoinedMinusLeft ==
    \A sid \in Sid : sockState[sid] = "connected" =>
        /\ sid \in DOMAIN connectedDevices
        /\ connectedDevices[sid] = roomsJoined[sid]
        /\ \A g \in RoomInputs :
              (g \in DOMAIN chatRooms /\ sid \in chatRooms[g]) <=> (g \in roomsJoined[sid])

\* C9 witness: a connected socket has joined two chats and left one of them
\* again, while another socket stays in the chat it left.
C9_Witness ==
    \E s1, s2 \in Sid :
        /\ s1 # s2 /\ sockState[s1] = "connected" /\ sockState[s2] = "connected"
        /\ roomsJoined[s1] = {Chat2} /\ connectedDevices[s1] = {Chat2}
        /\ Chat1 \in DOMAIN chatRooms /\ chatRooms[Chat1] = {s2}

\* C10 as written: a socket that has disconnected has no connectedDevices
\* entry, is in no member set of chatRooms and is counted by
\* getRoomClientCount for no chatGuid.
C10_Original ==
    \A sid \in Sid : sockState[sid] = "disconnected" =>
        /\ sid \notin DOMAIN connectedDevices
        /\ \A g \in DOMAIN chatRooms : sid \notin chatRooms[g]
        /\ \A g \in RoomInputs :
              getRoomClientCount(g) <=
                Cardinality({q \in Sid : sockState[q] = "connected" /\ g \in roomsJoined[q]})

\* ------------------------------------------------------------------ claims: SSE health and contacts
\* C21: after startup the poll timer is active exactly when SSE is marked
\* unhealthy, under any sequence of SSE-connected, SSE-disconnected, SSE-event
\* and watchdog-tick callbacks, and there is never more than one poll timer.
C21_TimerIffUnhealthy ==
    /\ pollTimer.handle <=> ~sseHealthy
    /\ pollTimer.live = (IF sseHealthy THEN 0 ELSE 1)

\* C21 witness: the watchdog has marked a connection unhealthy and the poll
\* timer runs again.
C21_Witness ==
    /\ sseTimes.cause = "watchdog"
    /\ ~sseHealthy
    /\ pollTimer.live = 1

\* C22: the watchdog marks a healthy connection unhealthy only after more
\* than SSE_IDLE_TIMEOUT_MS of idle time, measured from the later of the last
\* SSE event and the moment the connection was established.
C22_Original ==
    [][(sseHealthy /\ ~sseHealthy' /\ sseTimes'.cause = "watchdog")
          => LET since == IF sseTimes.lastSseEventAt >= sseTimes.lastSseConnectAt
                          THEN sseTimes.lastSseEventAt ELSE sseTimes.lastSseConnectAt
             IN  sseTimes.now - since > SSE_IDLE_TIMEOUT_MS]_vars

C24_Original == contacts.last.served >= contacts.last.start

\* C25: once the daemon has answered an updates request with 404 or 501,
\* supportsUpdates stays false and no later getUpdates call issues an upstream
\* request; any other upstream error leaves supportsUpdates unchanged.
C25_UnsupportedIsSticky ==
    [][/\ ~supportsUpdates => (~supportsUpdates' /\ Len(pollCalls') <= Len(pollCalls))
       /\ (\E i \in 1..MaxPolls : PollError(i)) => supportsUpdates' = supportsUpdates]_vars

\* C25 witness: the daemon answered 404 / 501, every earlier call has
\* returned, and the poll timer still ticks.
C25_Witness ==
    /\ ~supportsUpdates
    /\ pollTimer.live = 1
    /\ pollCalls = <<>>

\* C28: immediately after shouldEmitMessage(g) returned true for a non-empty
\* guid g, a second shouldEmitMessage(g) returns false, in every state of the
\* recently-emitted set, also when it holds MAX_EMITTED_CACHE entries.
C28_Original ==
    \A g \in FollowedGuids :
        LET first == shouldEmitMessage(recentlyEmittedGuids, g)
        IN  first.ret => ~shouldEmitMessage(first.set, g).ret

\* C29: every authenticated connected socket is a member of the 'global' room
\* from its handshake until it disconnects, under any sequence of join_chat
\* and leave_chat events with any chatGuid value.
C29_Original ==
    \A sid \in Sid : sockState[sid] = "connected" => GlobalRoom \in ioRooms[sid]

\* ------------------------------------------------------------------ claims: delivery
\* C7 as written: when the SSE path and the poll path have both delivered the
\* message with guid g, 'message.created' has been broadcast for g exactly once.
C7_Original ==
    \A g \in FollowedGuids :
        (g \in sseDelivered /\ g \in pollDelivered) => emitted[g] = 1

\* C8 as written: at most one pollSwiftDaemon invocation awaits getUpdates.
C8_Original == Len(pollCalls) <= 1

====
